---- MODULE Spec2Model ----
(***************************************************************************)
(* Biscuit: an in-memory bitmap index for LIKE / NOT LIKE / ILIKE /        *)
(* NOT ILIKE over text columns (src/src/biscuit.c).                        *)
(*                                                                         *)
(* Strings are sequences of bytes.  A bitmap (RoaringBitmap) is the set of *)
(* record ids it holds.  A pointer that may be NULL is the empty set       *)
(* (NULL) or a one-element set holding the pointee (Some).  Record id r    *)
(* of the C arrays is element r+1 of the corresponding sequence; entry k   *)
(* of a length array is element k+1 of its sequence, and the length of    *)
(* the sequence is the number of entries the array was allocated with.    *)
(***************************************************************************)
EXTENDS Integers, Sequences, FiniteSets, TLC

(* ------------------------------ bounds --------------------------------- *)

\* number of distinct heap tuple identifiers (ItemPointers) in play
NumTids == 2

\* longest text, in characters, that is inserted
MaxLen == 3

\* longest free list: a bulk delete that would push more is not taken
MaxFree == 2

(* ----------------------------- constants ------------------------------- *)

\* #define TOMBSTONE_CLEANUP_THRESHOLD 1000, scaled down so that a bulk
\* delete can reach it with NumTids records
TOMBSTONE_CLEANUP_THRESHOLD == 2

\* initial_size of the single-column length arrays in biscuit_insert, 32
\* in the source; any size above MaxLen + 1 behaves the same
INITIAL_SIZE == 8

\* #define BISCUIT_LIKE_STRATEGY 1 and the three after it
BISCUIT_LIKE_STRATEGY == 1

BISCUIT_NOT_LIKE_STRATEGY == 2

BISCUIT_ILIKE_STRATEGY == 3

BISCUIT_NOT_ILIKE_STRATEGY == 4

(* --------------------------- NULL pointers ----------------------------- *)

NULL == {}

Some(x) == {x}

Deref(p) == CHOOSE x \in p : TRUE

\* a column value whose isnull flag is set (no text has this byte)
NullDatum == <<256>>

\* the text that the scan of the table caches for a column value of an
\* index on several columns: pstrdup("") for a NULL one
DatumText(value) == IF value = NullDatum THEN <<>> ELSE value

(* ------------------------------ strings -------------------------------- *)

Percent == 37

Underscore == 95

\* the characters texts and patterns are made of: 'a', 'A' and the
\* two-byte character U+00E9
Alphabet == {<<97>>, <<65>>, <<195, 169>>}

Min(a, b) == IF a < b THEN a ELSE b

Max(a, b) == IF a > b THEN a ELSE b

\* biscuit_utf8_char_length: bytes of the character a first byte announces
biscuit_utf8_char_length(c) ==
    IF c < 128 THEN 1
    ELSE IF c < 192 THEN 1
    ELSE IF c < 224 THEN 2
    ELSE IF c < 240 THEN 3
    ELSE IF c < 248 THEN 4
    ELSE 1

\* the characters of a string, each the sequence of its bytes; the byte
\* count of the last character is clamped to the bytes that remain
RECURSIVE Utf8Chars(_)
Utf8Chars(str) ==
    IF str = <<>> THEN <<>>
    ELSE LET n == Min(biscuit_utf8_char_length(str[1]), Len(str))
         IN  <<SubSeq(str, 1, n)>> \o Utf8Chars(SubSeq(str, n + 1, Len(str)))

\* biscuit_utf8_char_count
biscuit_utf8_char_count(str) == Len(Utf8Chars(str))

\* biscuit_str_tolower: PostgreSQL lower(); ASCII letters fold, the other
\* bytes of the alphabet are unchanged
ToLowerByte(b) == IF b >= 65 /\ b <= 90 THEN b + 32 ELSE b

biscuit_str_tolower(str) == [i \in 1..Len(str) |-> ToLowerByte(str[i])]

\* column values: 'Aa', 'a' U+00E9 'a' and 'aaAa'; upper and lower case,
\* one- and two-byte characters, two to four characters
Corpus == {<<65, 97>>, <<97, 195, 169, 97>>, <<97, 97, 65, 97>>}

\* the texts that are inserted
Texts == {t \in Corpus : biscuit_utf8_char_count(t) <= MaxLen}

\* the rows that are inserted: any text into an index on one column, a
\* text and a different one into an index on two
Rows(ncols) ==
    IF ncols = 1 THEN {<<t>> : t \in Texts}
    ELSE {<<t, u>> : t \in Texts, u \in {<<65, 97>>, <<97, 195, 169, 97>>}} \
         {<<t, t>> : t \in Texts}

\* the bytes that index a CharIndex array (CHAR_RANGE entries in the source)
IdxBytes == UNION {{c[i] : i \in 1..Len(c)} : c \in Alphabet} \cup
            UNION {{ToLowerByte(c[i]) : i \in 1..Len(c)} : c \in Alphabet}

Tids == 1..NumTids

\* record ids a slot can have: TIDs of slots are pairwise different
RecIds == 0..(NumTids - 1)

(* ------------------------------ CharIndex ------------------------------ *)

\* a CharIndex is the sequence of its PosEntry records, ascending in pos

\* biscuit_get_pos_bitmap and its neg / lower / column variants: the
\* binary search for the entry of a position, NULL when there is none
GetBitmap(entries, pos) ==
    IF \E i \in 1..Len(entries) : entries[i].pos = pos
    THEN Some(entries[CHOOSE i \in 1..Len(entries) : entries[i].pos = pos].bitmap)
    ELSE NULL

\* biscuit_set_pos_bitmap without the memmove that shifts the greater
\* entries up: a new entry overwrites the entry at its place
SetBitmap_NoShift(entries, pos, bm) ==
    IF \E i \in 1..Len(entries) : entries[i].pos = pos
    THEN [i \in 1..Len(entries) |->
             IF entries[i].pos = pos THEN [pos |-> pos, bitmap |-> bm]
             ELSE entries[i]]
    ELSE LET insert_pos == Cardinality({i \in 1..Len(entries) : entries[i].pos < pos})
         IN  SubSeq(entries, 1, insert_pos) \o <<[pos |-> pos, bitmap |-> bm]>> \o
             SubSeq(entries, insert_pos + 2, Len(entries))

\* biscuit_set_pos_bitmap and its variants: replace the bitmap of the
\* entry of pos, or shift the greater entries up and insert a new one
SetBitmap(entries, pos, bm) ==
    IF \E i \in 1..Len(entries) : entries[i].pos = pos
    THEN [i \in 1..Len(entries) |->
             IF entries[i].pos = pos THEN [pos |-> pos, bitmap |-> bm]
             ELSE entries[i]]
    ELSE LET insert_pos == Cardinality({i \in 1..Len(entries) : entries[i].pos < pos})
         IN  SubSeq(entries, 1, insert_pos) \o <<[pos |-> pos, bitmap |-> bm]>> \o
             SubSeq(entries, insert_pos + 1, Len(entries))

\* bm = get(...); if (!bm) { bm = create(); set(..., bm); } add(bm, rec_idx)
AddAt(entries, pos, rec_idx) ==
    LET bm == GetBitmap(entries, pos)
    IN  IF bm = NULL THEN SetBitmap(entries, pos, {rec_idx})
        ELSE SetBitmap(entries, pos, Deref(bm) \cup {rec_idx})

\* a removal that empties every bitmap it visits
RemoveFromEntries_Clear(entries, gone) ==
    [i \in 1..Len(entries) |-> [pos |-> entries[i].pos, bitmap |-> {}]]

\* for (j = 0; j < count; j++) andnot_inplace(entries[j].bitmap, gone)
RemoveFromEntries(entries, gone) ==
    [i \in 1..Len(entries) |-> [pos |-> entries[i].pos, bitmap |-> entries[i].bitmap \ gone]]

\* if (p) andnot_inplace(p, gone)
RemoveFromPtr(p, gone) == IF p = NULL THEN NULL ELSE Some(Deref(p) \ gone)

\* the first n entries of a length array lose the records in gone
RemoveFromLengths(arr, n, gone) ==
    [i \in 1..Len(arr) |-> IF i <= n THEN RemoveFromPtr(arr[i], gone) ELSE arr[i]]

\* the (byte, character position, negative position) triples of a string:
\* every byte of a character at the position of the character
RECURSIVE CharTriples(_, _, _)
CharTriples(chars, k, L) ==
    IF k > L THEN <<>>
    ELSE [b \in 1..Len(chars[k]) |-> [ch |-> chars[k][b], pos |-> k - 1, neg |-> (k - 1) - L]]
         \o CharTriples(chars, k + 1, L)

StrTriples(str) == CharTriples(Utf8Chars(str), 1, Len(Utf8Chars(str)))

\* the indexing loop of biscuit_insert over one string: positive and
\* negative position bitmaps and the character cache
RECURSIVE IndexTriples(_, _, _)
IndexTriples(ix, tr, rec_idx) ==
    IF tr = <<>> THEN ix
    ELSE LET t == Head(tr)
         IN  IndexTriples(
                 [pos |-> [ix.pos EXCEPT ![t.ch] = AddAt(@, t.pos, rec_idx)],
                  neg |-> [ix.neg EXCEPT ![t.ch] = AddAt(@, t.neg, rec_idx)],
                  cache |-> [ix.cache EXCEPT ![t.ch] =
                                IF @ = NULL THEN Some({rec_idx}) ELSE Some(Deref(@) \cup {rec_idx})]],
                 Tail(tr), rec_idx)

(* ----------------------------- ColumnIndex ----------------------------- *)

EmptyCharIndexes == [ch \in IdxBytes |-> <<>>]

EmptyCharCache == [ch \in IdxBytes |-> NULL]

(* ------------------------------- state --------------------------------- *)

VARIABLES
    num_columns,      \* BiscuitIndex.num_columns
    num_records,      \* BiscuitIndex.num_records
    tids,             \* BiscuitIndex.tids[0 .. num_records)
    data_cache,       \* column_data_cache[col][rec], data_cache[rec] for one column
    data_cache_lower, \* BiscuitIndex.data_cache_lower[rec] (one column only)
    tombstones,       \* BiscuitIndex.tombstones
    tombstone_count,  \* BiscuitIndex.tombstone_count
    free_list,        \* BiscuitIndex.free_list[0 .. free_count)
    max_len,          \* BiscuitIndex.max_len
    column_indices,   \* BiscuitIndex.column_indices[col]
    heap,             \* the table: the row at each TID, NULL where there is none
    fault,            \* "crash" once the process has ended on a stray or NULL
                      \* pointer, "none" otherwise
    so_keys,          \* the scan keys of the scan in progress, <<>> when none
    so_results,       \* BiscuitScanOpaque.results[0 .. num_results)
    pre_insert,       \* history: NULL, or after the insert of a row at a TID
                      \* that had none, and after the bulk delete of that TID
                      \* next to it, the TID and what every query returned
                      \* before the insert
    delete_count,     \* BiscuitIndex.delete_count, a statistic that the code
                      \* writes and only biscuit_index_stats reads; followed
                      \* in SpecCounters, left at 0 elsewhere
    compacted,        \* history: the ids of the tombstone bitmap that the
                      \* last operation, a bulk delete, freed at its end;
                      \* followed in SpecCompact, left empty elsewhere
    QueryCancelPending, \* the interrupt flag of the host that
                      \* CHECK_FOR_INTERRUPTS() reads; raised in
                      \* SpecInterrupt, left FALSE elsewhere
    insert_results    \* history: NULL, or once the index that received its
                      \* rows one at a time has been built again from the
                      \* table, what every query returned before that;
                      \* followed in SpecBuild, left NULL elsewhere

vars == <<num_columns, num_records, tids, data_cache, data_cache_lower, tombstones,
          tombstone_count, free_list, max_len, column_indices, heap, fault,
          so_keys, so_results, pre_insert, delete_count, compacted, QueryCancelPending, insert_results>>

Cols == 1..num_columns

(* ------------------------- removal from indices ------------------------ *)

\* one column's share of biscuit_remove_from_all_indices and of the cleanup
\* loops of biscuit_bulkdelete: the records in gone leave every position
\* entry and character cache, and the first n / n_lower length entries
RemoveFromColumn(ci, gone, n, n_lower) ==
    [pos_idx |-> [ch \in IdxBytes |-> RemoveFromEntries(ci.pos_idx[ch], gone)],
     neg_idx |-> [ch \in IdxBytes |-> RemoveFromEntries(ci.neg_idx[ch], gone)],
     char_cache |-> [ch \in IdxBytes |-> RemoveFromPtr(ci.char_cache[ch], gone)],
     length_bitmaps |-> RemoveFromLengths(ci.length_bitmaps, n, gone),
     length_ge_bitmaps |-> RemoveFromLengths(ci.length_ge_bitmaps, n, gone),
     max_length |-> ci.max_length,
     pos_idx_lower |-> [ch \in IdxBytes |-> RemoveFromEntries(ci.pos_idx_lower[ch], gone)],
     neg_idx_lower |-> [ch \in IdxBytes |-> RemoveFromEntries(ci.neg_idx_lower[ch], gone)],
     char_cache_lower |-> [ch \in IdxBytes |-> RemoveFromPtr(ci.char_cache_lower[ch], gone)],
     length_bitmaps_lower |-> RemoveFromLengths(ci.length_bitmaps_lower, n_lower, gone),
     length_ge_bitmaps_lower |-> RemoveFromLengths(ci.length_ge_bitmaps_lower, n_lower, gone),
     max_length_lower |-> ci.max_length_lower]

\* biscuit_remove_from_all_indices: in every column, length entries
\* j < max_length and j < max_length_lower
biscuit_remove_from_all_indices(cis, rec_idx) ==
    [c \in DOMAIN cis |->
        RemoveFromColumn(cis[c], {rec_idx}, cis[c].max_length, cis[c].max_length_lower)]

(* ------------------------------- insert -------------------------------- *)

\* the length-array update of biscuit_insert for one pair of arrays; an
\* array that was never allocated (a NULL pointer) is the empty sequence.
\* ml0 is max_length as the code reads it here (after the earlier
\* "if (char_count > max_length) max_length = char_count" where the code
\* has one).  memcpy copies old_max entries; the ones past the end of the
\* old array are read out of bounds and are taken to read as NULL, with
\* oob set.  For several columns the ge loop adds without a NULL check.
LengthUpdate(exact0, ge0, ml0, char_count, rec_idx, ncols) ==
    LET init    == ncols = 1 /\ (exact0 = <<>> \/ ml0 = 0)
        exact1  == IF init THEN [i \in 1..INITIAL_SIZE |-> NULL] ELSE exact0
        ge1     == IF init THEN [i \in 1..INITIAL_SIZE |-> Some({})] ELSE ge0
        ml1     == IF init THEN INITIAL_SIZE ELSE ml0
        grow    == (ncols > 1 /\ exact1 = <<>>) \/ char_count >= ml1
        old_max == ml1
        new_max == (char_count + 1) * 2
        exact2  == IF grow
                   THEN [i \in 1..new_max |->
                            IF i <= old_max /\ i <= Len(exact1) THEN exact1[i] ELSE NULL]
                   ELSE exact1
        ge2     == IF grow
                   THEN [i \in 1..new_max |->
                            IF i <= old_max
                            THEN (IF i <= Len(ge1) THEN ge1[i] ELSE NULL)
                            ELSE Some({})]
                   ELSE ge1
        ml2     == IF grow THEN new_max ELSE ml1
        exact3  == [exact2 EXCEPT ![char_count + 1] =
                       IF @ = NULL THEN Some({rec_idx}) ELSE Some(Deref(@) \cup {rec_idx})]
        touched == {i \in 1..Len(ge2) : i - 1 <= char_count /\ i - 1 < ml2}
        ge3     == [i \in 1..Len(ge2) |->
                       IF i \in touched
                       THEN (IF ge2[i] = NULL THEN Some({rec_idx})
                             ELSE Some(Deref(ge2[i]) \cup {rec_idx}))
                       ELSE ge2[i]]
    IN  [exact |-> exact3, ge |-> ge3, max_length |-> ml2,
         oob |-> grow /\ exact1 # <<>> /\ old_max > Len(exact1),
         null_add |-> ncols > 1 /\ \E i \in touched : ge2[i] = NULL]

\* the body of the column loop of biscuit_insert (for one column the
\* single-column branch): index str under rec_idx in the column
InsertColumn(ci, str, rec_idx, ncols) ==
    LET char_count == biscuit_utf8_char_count(str)
        text_lower == biscuit_str_tolower(str)
        lower_char_count == biscuit_utf8_char_count(text_lower)
        \* several columns: if (char_count > cidx->max_length) max_length = char_count
        ml  == IF ncols > 1 THEN Max(ci.max_length, char_count) ELSE ci.max_length
        \* both branches: if (lower_char_count > max_length_lower) ...
        mll == Max(ci.max_length_lower, lower_char_count)
        cs  == IndexTriples([pos |-> ci.pos_idx, neg |-> ci.neg_idx, cache |-> ci.char_cache],
                            StrTriples(str), rec_idx)
        lo  == IndexTriples([pos |-> ci.pos_idx_lower, neg |-> ci.neg_idx_lower,
                             cache |-> ci.char_cache_lower],
                            StrTriples(text_lower), rec_idx)
        lcs == LengthUpdate(ci.length_bitmaps, ci.length_ge_bitmaps, ml,
                            char_count, rec_idx, ncols)
        llo == LengthUpdate(ci.length_bitmaps_lower, ci.length_ge_bitmaps_lower, mll,
                            lower_char_count, rec_idx, ncols)
    IN  [ci |-> [pos_idx |-> cs.pos, neg_idx |-> cs.neg, char_cache |-> cs.cache,
                 length_bitmaps |-> lcs.exact, length_ge_bitmaps |-> lcs.ge,
                 max_length |-> lcs.max_length,
                 pos_idx_lower |-> lo.pos, neg_idx_lower |-> lo.neg,
                 char_cache_lower |-> lo.cache,
                 length_bitmaps_lower |-> llo.exact, length_ge_bitmaps_lower |-> llo.ge,
                 max_length_lower |-> llo.max_length],
         oob |-> lcs.oob \/ llo.oob,
         null_add |-> lcs.null_add \/ llo.null_add]

\* the slot of a TID among tids[0 .. num_records), as the update scan finds it
SlotOf(tid) == CHOOSE r \in 0..(num_records - 1) : tids[r + 1] = tid

SetSlot(s, rec_idx, v) ==
    IF rec_idx + 1 > Len(s) THEN Append(s, v) ELSE [s EXCEPT ![rec_idx + 1] = v]

\* a slot choice that pops the free list before it looks for the TID
ChooseSlot_FreeListFirst(tid) ==
    LET is_reusing_slot == free_list # <<>>
        found_existing == ~is_reusing_slot /\ \E r \in 0..(num_records - 1) : tids[r + 1] = tid
    IN  [found_existing |-> found_existing,
         is_reusing_slot |-> is_reusing_slot,
         rec_idx |-> IF is_reusing_slot THEN free_list[Len(free_list)]
                     ELSE IF found_existing THEN SlotOf(tid)
                     ELSE num_records]

\* the slot that biscuit_insert takes for tid: the slot that holds the TID
\* (the scan of tids[0 .. num_records)), or else the slot that
\* biscuit_pop_free_slot returns, or else the new slot num_records
ChooseSlot(tid) ==
    LET found_existing == \E r \in 0..(num_records - 1) : tids[r + 1] = tid
        is_reusing_slot == ~found_existing /\ free_list # <<>>
    IN  [found_existing |-> found_existing,
         is_reusing_slot |-> is_reusing_slot,
         rec_idx |-> IF found_existing THEN SlotOf(tid)
                     ELSE IF is_reusing_slot THEN free_list[Len(free_list)]
                     ELSE num_records]

\* biscuit_insert(values, ht_ctid).  A read past the end of a length array
\* A row with a NULL column goes into the table and the index is left as
\* it is (the early returns on isnull).  A read past the end of a length array
\* either finds NULL and the insert goes on, or finds a stray pointer, which
\* the code then writes through: the process ends (fault "crash") and the
\* row is not inserted.  Adding to a NULL bitmap ends the process as well.
biscuit_insert(tid, vals) ==
    LET found_existing == ChooseSlot(tid).found_existing
        is_reusing_slot == ChooseSlot(tid).is_reusing_slot
        rec_idx == ChooseSlot(tid).rec_idx
        cleaned == IF found_existing \/ is_reusing_slot
                   THEN biscuit_remove_from_all_indices(column_indices, rec_idx)
                   ELSE column_indices
        res == [c \in Cols |-> InsertColumn(cleaned[c], vals[c], rec_idx, num_columns)]
        oob == \E c \in Cols : res[c].oob
        null_add == \E c \in Cols : res[c].null_add
    IN  /\ fault # "crash"
        /\ so_keys = <<>>
        /\ UNCHANGED <<so_keys, so_results>>
        /\ \/ /\ \E c \in Cols : vals[c] = NullDatum
              /\ heap' = [heap EXCEPT ![tid] = Some(vals)]
              /\ UNCHANGED <<num_columns, num_records, tids, data_cache, data_cache_lower,
                             tombstones, tombstone_count, free_list, max_len,
                             column_indices, fault>>
           \/ /\ \A c \in Cols : vals[c] # NullDatum
              /\ oob \/ null_add
              /\ fault' = "crash"
              /\ UNCHANGED <<num_columns, num_records, tids, data_cache, data_cache_lower,
                             tombstones, tombstone_count, free_list, max_len,
                             column_indices, heap>>
           \/ /\ \A c \in Cols : vals[c] # NullDatum
              /\ ~null_add
              /\ fault' = fault
              /\ num_records' = IF found_existing \/ is_reusing_slot
                                THEN num_records ELSE num_records + 1
              /\ tids' = SetSlot(tids, rec_idx, tid)
              /\ data_cache' = [c \in Cols |-> SetSlot(data_cache[c], rec_idx, Some(vals[c]))]
              /\ data_cache_lower' =
                     IF num_columns = 1
                     THEN SetSlot(data_cache_lower, rec_idx, Some(biscuit_str_tolower(vals[1])))
                     ELSE data_cache_lower
              /\ tombstones' =
                     IF found_existing
                     THEN (IF tombstone_count > 0 THEN tombstones \ {rec_idx} ELSE tombstones)
                     ELSE IF is_reusing_slot THEN tombstones \ {rec_idx}
                     ELSE tombstones
              /\ tombstone_count' =
                     IF found_existing
                     THEN (IF tombstone_count > 0 /\ rec_idx \in tombstones
                           THEN tombstone_count - 1 ELSE tombstone_count)
                     ELSE IF is_reusing_slot THEN tombstone_count - 1
                     ELSE tombstone_count
              /\ free_list' = IF is_reusing_slot
                              THEN SubSeq(free_list, 1, Len(free_list) - 1)
                              ELSE free_list
              /\ max_len' = Max(max_len,
                                CHOOSE m \in 0..MaxLen :
                                    /\ \E c \in Cols : m = biscuit_utf8_char_count(vals[c])
                                    /\ \A c \in Cols : m >= biscuit_utf8_char_count(vals[c]))
              /\ column_indices' = [c \in Cols |-> res[c].ci]
              /\ heap' = [heap EXCEPT ![tid] = Some(vals)]
              /\ UNCHANGED num_columns

(* ----------------------------- bulk delete ----------------------------- *)

\* the elements of a set of numbers in ascending order
RECURSIVE Ascending(_)
Ascending(S) ==
    IF S = {} THEN <<>>
    ELSE LET m == CHOOSE x \in S : \A y \in S : x <= y
         IN  <<m>> \o Ascending(S \ {m})

\* biscuit_bulkdelete with a callback that accepts the TIDs in dead, rows
\* of the table that the vacuum removes.  The
\* cleanup of several columns reads length entries j <= max_length: one
\* past the end once an insert has grown the arrays.  That read finds NULL
\* and is skipped, or a stray pointer that is written through (fault "crash").
biscuit_bulkdelete(dead) ==
    LET records_to_delete ==
            {i \in 0..(num_records - 1) :
                /\ data_cache[1][i + 1] # NULL
                /\ i \notin tombstones
                /\ tids[i + 1] \in dead}
        n(ci)       == IF num_columns = 1 THEN ci.max_length ELSE ci.max_length + 1
        n_lower(ci) == IF num_columns = 1 THEN ci.max_length_lower ELSE ci.max_length_lower + 1
        oob == /\ records_to_delete # {}
               /\ \E c \in Cols :
                     \/ n(column_indices[c]) > Len(column_indices[c].length_bitmaps)
                        /\ column_indices[c].length_bitmaps # <<>>
                     \/ n_lower(column_indices[c]) > Len(column_indices[c].length_bitmaps_lower)
                        /\ column_indices[c].length_bitmaps_lower # <<>>
        count1 == tombstone_count + Cardinality(records_to_delete)
        compact == count1 >= TOMBSTONE_CLEANUP_THRESHOLD
    IN  /\ fault # "crash"
        /\ so_keys = <<>>
        /\ UNCHANGED <<so_keys, so_results>>
        /\ \A t \in dead : heap[t] # NULL
        /\ Len(free_list) + Cardinality(records_to_delete) <= MaxFree
        /\ \/ /\ oob
              /\ fault' = "crash"
              /\ UNCHANGED <<num_columns, num_records, tids, data_cache, data_cache_lower,
                             tombstones, tombstone_count, free_list, max_len,
                             column_indices, heap>>
           \/ /\ fault' = fault
              /\ tombstones' = IF compact THEN {} ELSE tombstones \cup records_to_delete
              /\ tombstone_count' = IF compact THEN 0 ELSE count1
              /\ free_list' = free_list \o Ascending(records_to_delete)
              /\ column_indices' =
                     IF records_to_delete = {} THEN column_indices
                     ELSE [c \in Cols |->
                              RemoveFromColumn(column_indices[c], records_to_delete,
                                               n(column_indices[c]), n_lower(column_indices[c]))]
              /\ data_cache' = [c \in Cols |->
                                   [i \in 1..Len(data_cache[c]) |->
                                       IF (i - 1) \in records_to_delete THEN NULL
                                       ELSE data_cache[c][i]]]
              /\ data_cache_lower' = [i \in 1..Len(data_cache_lower) |->
                                         IF (i - 1) \in records_to_delete THEN NULL
                                         ELSE data_cache_lower[i]]
              /\ heap' = [t \in Tids |-> IF t \in dead THEN NULL ELSE heap[t]]
              /\ UNCHANGED <<num_columns, num_records, tids, max_len>>

(* ------------------------------- load ---------------------------------- *)

\* the records of strs (record id r at element r + 1) indexed one after
\* the other, as the heap scan of biscuit_load_index does
RECURSIVE IndexAll(_, _, _)
IndexAll(ix, strs, r) ==
    IF r >= Len(strs) THEN ix
    ELSE IndexAll(IndexTriples(ix, StrTriples(strs[r + 1]), r), strs, r + 1)

MaxCount(strs) ==
    IF strs = <<>> THEN 0
    ELSE CHOOSE m \in 0..MaxLen :
             /\ \E i \in 1..Len(strs) : m = biscuit_utf8_char_count(strs[i])
             /\ \A i \in 1..Len(strs) : m >= biscuit_utf8_char_count(strs[i])

\* the length arrays biscuit_load_index (and the build) allocates with
\* size entries and fills from the cached strings
BuiltExact(strs, size) ==
    [i \in 1..size |->
        LET S == {r \in 0..(Len(strs) - 1) : biscuit_utf8_char_count(strs[r + 1]) = i - 1}
        IN  IF S = {} THEN NULL ELSE Some(S)]

BuiltGE(strs, size) ==
    [i \in 1..size |->
        Some({r \in 0..(Len(strs) - 1) : biscuit_utf8_char_count(strs[r + 1]) >= i - 1})]

\* one column of biscuit_build (is_load false) and biscuit_load_index
\* (is_load true) over the strings of the column.  The load returns before
\* the length arrays are allocated when the table has no rows.  Otherwise
\* the arrays have max + 1 entries, and max_length is max for several
\* columns and max + 1 for one.
BuildColumn(strs, ncols, is_load) ==
    LET lowers == [i \in 1..Len(strs) |-> biscuit_str_tolower(strs[i])]
        empty  == [pos |-> EmptyCharIndexes, neg |-> EmptyCharIndexes, cache |-> EmptyCharCache]
        cs     == IndexAll(empty, strs, 0)
        lo     == IndexAll(empty, lowers, 0)
        M      == MaxCount(strs)
        Ml     == MaxCount(lowers)
        none   == is_load /\ strs = <<>>
    IN  [pos_idx |-> cs.pos, neg_idx |-> cs.neg, char_cache |-> cs.cache,
         length_bitmaps |-> IF none THEN <<>> ELSE BuiltExact(strs, M + 1),
         length_ge_bitmaps |-> IF none THEN <<>> ELSE BuiltGE(strs, M + 1),
         max_length |-> IF none THEN 0 ELSE IF ncols > 1 THEN M ELSE M + 1,
         pos_idx_lower |-> lo.pos, neg_idx_lower |-> lo.neg, char_cache_lower |-> lo.cache,
         length_bitmaps_lower |-> IF none THEN <<>> ELSE BuiltExact(lowers, Ml + 1),
         length_ge_bitmaps_lower |-> IF none THEN <<>> ELSE BuiltGE(lowers, Ml + 1),
         max_length_lower |-> IF none THEN 0 ELSE IF ncols > 1 THEN Ml ELSE Ml + 1]

\* the index that the heap scan of biscuit_build / biscuit_load_index
\* makes of the table h: one record per row, in TID order.  With one
\* column the rows whose value is NULL are passed over; with several a
\* NULL column is cached as "" and its record is in the length bitmaps of
\* that column as a string of no character.
BuiltIndex(h, ncols, is_load) ==
    LET rows == Ascending({t \in Tids : /\ h[t] # NULL
                                        /\ ncols > 1 \/ Deref(h[t])[1] # NullDatum})
        strs(c) == [i \in 1..Len(rows) |-> DatumText(Deref(h[rows[i]])[c])]
    IN  [num_records |-> Len(rows),
         tids |-> rows,
         data_cache |-> [c \in 1..ncols |-> [i \in 1..Len(rows) |-> Some(strs(c)[i])]],
         data_cache_lower |->
             IF ncols = 1
             THEN [i \in 1..Len(rows) |-> Some(biscuit_str_tolower(strs(1)[i]))]
             ELSE <<>>,
         max_len |-> MaxCount([i \in 1..(Len(rows) * ncols) |->
                                  strs(((i - 1) % ncols) + 1)[((i - 1) \div ncols) + 1]]),
         column_indices |-> [c \in 1..ncols |-> BuildColumn(strs(c), ncols, is_load)]]

\* biscuit_load_index: a backend that has no cached index (a new session,
\* or the restart after a crash) rebuilds it from the rows of the table
biscuit_load_index ==
    LET ix == BuiltIndex(heap, num_columns, TRUE)
    IN  /\ so_keys = <<>>
        /\ UNCHANGED <<so_keys, so_results>>
        /\ num_records' = ix.num_records
        /\ tids' = ix.tids
        /\ data_cache' = ix.data_cache
        /\ data_cache_lower' = ix.data_cache_lower
        /\ tombstones' = {}
        /\ tombstone_count' = 0
        /\ free_list' = <<>>
        /\ max_len' = ix.max_len
        /\ column_indices' = ix.column_indices
        /\ fault' = "none"
        /\ UNCHANGED <<num_columns, heap>>

\* the tables an index is created on: no row, or one row at the first TID
InitTables(ncols) ==
    {[t \in Tids |-> NULL]} \cup
    {[t \in Tids |-> IF t = 1 THEN Some(r) ELSE NULL] : r \in Rows(ncols)}

\* biscuit_build / biscuit_build_multicolumn: CREATE INDEX on ncols columns
\* of one of the tables
InitIndexOn(tables, ncols) ==
    /\ num_columns = ncols
    /\ heap \in tables
    /\ num_records = BuiltIndex(heap, ncols, FALSE).num_records
    /\ tids = BuiltIndex(heap, ncols, FALSE).tids
    /\ data_cache = BuiltIndex(heap, ncols, FALSE).data_cache
    /\ data_cache_lower = BuiltIndex(heap, ncols, FALSE).data_cache_lower
    /\ tombstones = {}
    /\ tombstone_count = 0
    /\ free_list = <<>>
    /\ max_len = BuiltIndex(heap, ncols, FALSE).max_len
    /\ column_indices = BuiltIndex(heap, ncols, FALSE).column_indices
    /\ fault = "none"
    /\ so_keys = <<>>
    /\ so_results = <<>>
    /\ pre_insert = NULL
    /\ delete_count = 0
    /\ compacted = {}
    /\ QueryCancelPending = FALSE
    /\ insert_results = NULL

InitIndex(ncols) == InitIndexOn(InitTables(ncols), ncols)

(* ------------------------- records and bitmaps ------------------------- *)

\* the records a pointer to a bitmap holds: none for a NULL pointer
PtrSet(p) == IF p = NULL THEN {} ELSE Deref(p)

\* the live records: the slots that cache a text and carry no tombstone
LiveRecords ==
    {r \in 0..(num_records - 1) : data_cache[1][r + 1] # NULL /\ r \notin tombstones}

\* entry k of a length array, NULL where the array has no such entry
LengthEntry(arr, k) == IF k + 1 <= Len(arr) THEN arr[k + 1] ELSE NULL

\* the union of the exact-length bitmaps of the lengths j >= k
UnionExactFrom(exact, k) ==
    UNION {PtrSet(LengthEntry(exact, j)) : j \in k..(Len(exact) - 1)}

(* --------------------------- query bitmaps ----------------------------- *)

\* A bitmap a query computes is the set of its record ids.  A read past
\* the end of a length array yields a pointer that is no bitmap, and the
\* copy the code makes of it ends the process: such a bitmap is {Stray},
\* and every operation on it yields {Stray} again.
Stray == 0 - 1

\* biscuit_roaring_and_inplace
BmAnd(a, b) == IF Stray \in (a \cup b) THEN {Stray} ELSE a \cap b

\* biscuit_roaring_or_inplace
BmOr(a, b) == IF Stray \in (a \cup b) THEN {Stray} ELSE a \cup b

\* biscuit_roaring_andnot_inplace
BmAndNot(a, b) == IF Stray \in (a \cup b) THEN {Stray} ELSE a \ b

\* biscuit_roaring_or_inplace of every bitmap of a set into an empty one
BmOrAll(S) == IF \E a \in S : Stray \in a THEN {Stray} ELSE UNION S

\* biscuit_roaring_copy(arr[k]): the bitmap of entry k; no bitmap when k
\* is past the end of the array or the entry is NULL
CopyEntry(arr, k) ==
    IF k + 1 > Len(arr) THEN {Stray}
    ELSE IF arr[k + 1] = NULL THEN {Stray}
    ELSE Deref(arr[k + 1])

\* biscuit_get_length_ge (one column, case-sensitive)
biscuit_get_length_ge(ci, min_len) ==
    IF min_len >= ci.max_length THEN {}
    ELSE CopyEntry(ci.length_ge_bitmaps, min_len)

\* biscuit_get_length_ge_lower (one column, folded)
biscuit_get_length_ge_lower(ci, min_len) ==
    IF min_len >= ci.max_length_lower THEN {}
    ELSE IF ci.length_ge_bitmaps_lower = <<>> THEN {}
    ELSE IF LengthEntry(ci.length_ge_bitmaps_lower, min_len) = NULL THEN {}
    ELSE CopyEntry(ci.length_ge_bitmaps_lower, min_len)

\* biscuit_get_col_length_ge (several columns, case-sensitive)
biscuit_get_col_length_ge(ci, min_len) ==
    IF ci.length_ge_bitmaps = <<>> THEN {}
    ELSE IF min_len > ci.max_length THEN {}
    ELSE CopyEntry(ci.length_ge_bitmaps, min_len)

\* biscuit_get_col_length_ge_lower (several columns, folded)
biscuit_get_col_length_ge_lower(ci, min_len) ==
    IF ci.length_ge_bitmaps_lower = <<>> THEN {}
    ELSE IF min_len > ci.max_length_lower THEN {}
    ELSE CopyEntry(ci.length_ge_bitmaps_lower, min_len)

\* The index a query function reads: the arrays of column col, the
\* folded ones for ILIKE (lower), through the accessors of an index on
\* one column or on several (multi).
View(col, lower, multi) ==
    [ci |-> column_indices[col], col |-> col, lower |-> lower, multi |-> multi,
     pos |-> IF lower THEN column_indices[col].pos_idx_lower ELSE column_indices[col].pos_idx,
     neg |-> IF lower THEN column_indices[col].neg_idx_lower ELSE column_indices[col].neg_idx]

\* the length-at-least accessor of the view
LengthGE(v, min_len) ==
    IF v.multi
    THEN (IF v.lower THEN biscuit_get_col_length_ge_lower(v.ci, min_len)
          ELSE biscuit_get_col_length_ge(v.ci, min_len))
    ELSE (IF v.lower THEN biscuit_get_length_ge_lower(v.ci, min_len)
          ELSE biscuit_get_length_ge(v.ci, min_len))

(* --------------------------- part matching ----------------------------- *)

\* The loop of biscuit_match_part_at_pos / _at_end and of their ilike and
\* column variants over the bytes of a part, from byte i on; k is the
\* position (negative for _at_end) of the character at byte i.  '_' moves
\* on by one character.  A character whose bitmap is missing, a
\* multi-byte character whose bytes share no record, and an intersection
\* that becomes empty end the function at once with an empty bitmap
\* (early).  result is NULL until the first character has been matched.
RECURSIVE MatchPartLoop(_, _, _, _, _)
MatchPartLoop(fam, part, i, k, result) ==
    IF i > Len(part) THEN [early |-> FALSE, result |-> result]
    ELSE IF part[i] = Underscore THEN MatchPartLoop(fam, part, i + 1, k + 1, result)
    ELSE LET char_len == Min(biscuit_utf8_char_length(part[i]), Len(part) - i + 1)
             bms == [b \in 1..char_len |-> GetBitmap(fam[part[i + b - 1]], k)]
             missing == \E b \in 1..char_len : bms[b] = NULL
             char_bm == {r \in Deref(bms[1]) : \A b \in 1..char_len : r \in Deref(bms[b])}
             next == IF result = NULL THEN char_bm ELSE Deref(result) \cap char_bm
         IN  IF missing THEN [early |-> TRUE, result |-> NULL]
             ELSE IF char_len > 1 /\ char_bm = {} THEN [early |-> TRUE, result |-> NULL]
             ELSE IF result # NULL /\ next = {} THEN [early |-> TRUE, result |-> NULL]
             ELSE MatchPartLoop(fam, part, i + char_len, k + 1, Some(next))

\* the end of both functions: a part of wildcards only is the
\* length-at-least bitmap, any other the intersection with it
MatchPartFinish(v, m, min_len) ==
    IF m.early THEN {}
    ELSE IF m.result = NULL THEN LengthGE(v, min_len)
    ELSE BmAnd(Deref(m.result), LengthGE(v, min_len))

\* biscuit_match_part_at_pos, _ilike, biscuit_match_col_part_at_pos, _ilike
biscuit_match_part_at_pos(v, part, start_pos) ==
    MatchPartFinish(v, MatchPartLoop(v.pos, part, 1, start_pos, NULL),
                    start_pos + biscuit_utf8_char_count(part))

\* biscuit_match_part_at_end, _ilike, biscuit_match_col_part_at_end, _ilike:
\* the character at offset o from the start of the part is looked up at
\* the negative position -(pattern_char_count - o)
biscuit_match_part_at_end(v, part) ==
    MatchPartFinish(v, MatchPartLoop(v.neg, part, 1, 0 - biscuit_utf8_char_count(part), NULL),
                    biscuit_utf8_char_count(part))

(* --------------------------- pattern parsing --------------------------- *)

\* the loop of biscuit_parse_pattern from byte i on: part_start is the
\* first byte of the part being read (1-based), parts the parts so far
RECURSIVE ParseLoop(_, _, _, _)
ParseLoop(pattern, i, part_start, parts) ==
    IF i > Len(pattern)
    THEN [parts |-> parts, part_start |-> part_start]
    ELSE IF pattern[i] = Percent
    THEN ParseLoop(pattern, i + 1, i + 1,
                   IF i - part_start > 0
                   THEN Append(parts, SubSeq(pattern, part_start, i - 1))
                   ELSE parts)
    ELSE ParseLoop(pattern, i + 1, part_start, parts)

\* biscuit_parse_pattern: the parts between the '%' of a pattern;
\* part_lens counts characters, part_byte_lens is the Len of each part
biscuit_parse_pattern(pattern) ==
    LET plen == Len(pattern)
        starts_percent == plen > 0 /\ pattern[1] = Percent
        ends_percent == plen > 0 /\ pattern[plen] = Percent
        first == IF starts_percent THEN 2 ELSE 1
        lp == ParseLoop(pattern, first, first, <<>>)
        last_len == IF ends_percent THEN plen - lp.part_start
                    ELSE plen - lp.part_start + 1
        parts == IF /\ lp.part_start <= plen
                    /\ (~ends_percent \/ lp.part_start < plen)
                    /\ last_len > 0
                 THEN Append(lp.parts, SubSeq(pattern, lp.part_start, lp.part_start + last_len - 1))
                 ELSE lp.parts
    IN  [parts |-> parts,
         part_lens |-> [i \in 1..Len(parts) |-> biscuit_utf8_char_count(parts[i])],
         part_count |-> Len(parts),
         starts_percent |-> starts_percent,
         ends_percent |-> ends_percent]

(* -------------------------- windowed matching -------------------------- *)

\* the characters of the parts from part i on
RECURSIVE RemainingLen(_, _)
RemainingLen(parts, i) ==
    IF i > Len(parts) THEN 0
    ELSE biscuit_utf8_char_count(parts[i]) + RemainingLen(parts, i + 1)

\* biscuit_recursive_windowed_match, _ilike, _col and _col_ilike: what the
\* call ORs into its result.  The last part of a pattern without a
\* trailing '%' is matched at the end of the text; the ilike and column
\* variants then intersect the match with the length-at-least bitmap of
\* min_pos plus the length of the part, the case-sensitive one for one
\* column intersects that bitmap with the match and frees it, which
\* leaves the match as it was.
RECURSIVE biscuit_recursive_windowed_match(_, _, _, _, _, _, _)
biscuit_recursive_windowed_match(v, parts, ends_percent, part_idx, min_pos, current_candidates, max_len_arg) ==
    IF part_idx > Len(parts) THEN current_candidates
    ELSE LET current_part_char_len == biscuit_utf8_char_count(parts[part_idx])
             remaining_len == RemainingLen(parts, part_idx + 1)
         IN  IF part_idx = Len(parts) /\ ~ends_percent
             THEN LET end_match == BmAnd(biscuit_match_part_at_end(v, parts[part_idx]),
                                         current_candidates)
                      length_constraint == LengthGE(v, min_pos + current_part_char_len)
                  IN  IF ~v.multi /\ ~v.lower
                      THEN (IF Stray \in length_constraint THEN {Stray} ELSE end_match)
                      ELSE BmAnd(end_match, length_constraint)
             ELSE LET max_pos == max_len_arg - current_part_char_len - remaining_len
                  IN  BmOrAll({LET part_match == biscuit_match_part_at_pos(v, parts[part_idx], pos)
                                   next_candidates == BmAnd(current_candidates, part_match)
                               IN  IF next_candidates = {} THEN {}
                                   ELSE biscuit_recursive_windowed_match(
                                            v, parts, ends_percent, part_idx + 1,
                                            pos + current_part_char_len,
                                            next_candidates, max_len_arg)
                               : pos \in min_pos..max_pos})

(* ------------------------- substring validation ------------------------ *)

\* the character-by-character validation of a '%part%' candidate against
\* its cached text: at some character position every character of the
\* part is '_' or has the bytes of the character of the text there
SubstringFound(part, haystack) ==
    LET pc == Utf8Chars(part)
        hc == Utf8Chars(haystack)
    IN  \E char_pos \in 0..(Len(hc) - Len(pc)) :
            \A k \in 1..Len(pc) :
                pc[k] = <<Underscore>> \/ pc[k] = hc[char_pos + k]

\* the first byte of a part that is not '_', NULL when there is none
FirstConcreteByte(part) ==
    IF \E i \in 1..Len(part) : part[i] # Underscore
    THEN Some(part[CHOOSE i \in 1..Len(part) :
                       /\ part[i] # Underscore
                       /\ \A j \in 1..(i - 1) : part[j] = Underscore])
    ELSE NULL

\* for (i = 0; i < num_records; i++) if (!contains(tombstones, i)) add(result, i)
AllNotTombstoned == {i \in 0..(num_records - 1) : i \notin tombstones}

\* the candidates of the validating '%part%' paths: the records of the
\* character cache of the first concrete byte, or else fallback
SubstringCandidates(cache, part, fallback) ==
    LET fb == FirstConcreteByte(part)
    IN  IF fb # NULL /\ cache[Deref(fb)] # NULL THEN Deref(cache[Deref(fb)])
        ELSE fallback

\* the candidates of which the cached text (texts[rec]) validates
SubstringValidated(candidates, texts, part) ==
    IF Stray \in candidates THEN {Stray}
    ELSE {rec \in candidates :
             /\ rec < num_records
             /\ texts[rec + 1] # NULL
             /\ SubstringFound(part, Deref(texts[rec + 1]))}

\* if (result && idx->tombstone_count > 0) andnot_inplace(result, tombstones)
FilterTombstones(result) ==
    IF tombstone_count > 0 THEN BmAndNot(result, tombstones) ELSE result

\* the pattern has no byte other than '%' and '_'
OnlyWildcards(pattern) ==
    \A i \in 1..Len(pattern) : pattern[i] \in {Percent, Underscore}

\* the '_' of a pattern
WildcardCount(pattern) == Cardinality({i \in 1..Len(pattern) : pattern[i] = Underscore})

\* the pattern has a '%'
HasPercent(pattern) == \E i \in 1..Len(pattern) : pattern[i] = Percent

\* the "complex multi-part" path shared by the four query functions
MultiPart(v, parsed, min_len, max_char_len) ==
    LET candidates == LengthGE(v, min_len)
        first_part_match == BmAnd(biscuit_match_part_at_pos(v, parsed.parts[1], 0), candidates)
    IN  IF candidates = {} THEN {}
        ELSE IF ~parsed.starts_percent
        THEN (IF first_part_match = {} THEN {}
              ELSE biscuit_recursive_windowed_match(v, parsed.parts, parsed.ends_percent, 2,
                                                    parsed.part_lens[1], first_part_match,
                                                    max_char_len))
        ELSE biscuit_recursive_windowed_match(v, parsed.parts, parsed.ends_percent, 1, 0,
                                              candidates, max_char_len)

\* the "two part" path 'abc%def' shared by the four query functions
TwoPart(v, parsed, min_len) ==
    BmAnd(BmAnd(biscuit_match_part_at_pos(v, parsed.parts[1], 0),
                biscuit_match_part_at_end(v, parsed.parts[2])),
          LengthGE(v, min_len))

(* --------------------------- query functions --------------------------- *)

\* the '%part%' path of biscuit_query_pattern: the part at every start
\* position up to max_len minus its length, each match intersected with
\* the length-at-least bitmap of where the part ends
SubstringByPosition(v, part, total_pattern_chars) ==
    BmOrAll({LET m == MatchPartLoop(v.pos, part, 1, start_pos, NULL)
             IN  IF m.early \/ m.result = NULL THEN {}
                 ELSE BmAnd(Deref(m.result),
                            biscuit_get_length_ge(v.ci, start_pos + total_pattern_chars))
             : start_pos \in 0..(max_len - total_pattern_chars)})

\* the exact path of the LIKE functions: the match at position 0
\* intersected with the exact-length bitmap, empty when there is none
ExactFiltered(at_start, exact_bm, in_range) ==
    IF in_range /\ exact_bm # NULL THEN BmAnd(at_start, Deref(exact_bm)) ELSE {}

\* the exact path of the ILIKE functions: a length in range that has no
\* exact-length bitmap leaves the match at position 0 unfiltered
ExactFilteredIlike(at_start, exact_bm, in_range) ==
    IF in_range /\ exact_bm # NULL THEN BmAnd(at_start, Deref(exact_bm))
    ELSE IF ~in_range THEN {}
    ELSE at_start

\* the paths of biscuit_query_pattern for a pattern with a literal
QueryPatternSlow(v, parsed, min_len) ==
    IF parsed.part_count = 1
    THEN (IF ~parsed.starts_percent /\ ~parsed.ends_percent
          THEN ExactFiltered(biscuit_match_part_at_pos(v, parsed.parts[1], 0),
                             LengthEntry(v.ci.length_bitmaps, min_len),
                             min_len < v.ci.max_length)
          ELSE IF ~parsed.starts_percent THEN biscuit_match_part_at_pos(v, parsed.parts[1], 0)
          ELSE IF ~parsed.ends_percent THEN biscuit_match_part_at_end(v, parsed.parts[1])
          ELSE SubstringByPosition(v, parsed.parts[1], min_len))
    ELSE IF parsed.part_count = 2 /\ ~parsed.starts_percent /\ ~parsed.ends_percent
    THEN TwoPart(v, parsed, min_len)
    ELSE MultiPart(v, parsed, min_len, max_len)

\* the fast paths of biscuit_query_pattern, and the tombstone filter over
\* the other paths
QueryPatternParsed(ci, pattern, parsed) ==
    IF Len(pattern) = 0
    THEN PtrSet(LengthEntry(ci.length_bitmaps, 0))
    ELSE IF pattern = <<Percent>> THEN AllNotTombstoned
    ELSE IF OnlyWildcards(pattern)
    THEN (IF HasPercent(pattern)
          THEN biscuit_get_length_ge(ci, WildcardCount(pattern))
          ELSE IF WildcardCount(pattern) < ci.max_length
          THEN PtrSet(LengthEntry(ci.length_bitmaps, WildcardCount(pattern)))
          ELSE {})
    ELSE IF parsed.part_count = 0 THEN AllNotTombstoned
    ELSE FilterTombstones(QueryPatternSlow(View(1, FALSE, FALSE), parsed,
                                           RemainingLen(parsed.parts, 1)))

\* biscuit_query_pattern: LIKE on an index of one column
biscuit_query_pattern(pattern) ==
    QueryPatternParsed(column_indices[1], pattern, biscuit_parse_pattern(pattern))

\* the paths of biscuit_query_pattern_ilike for a pattern with a literal.
\* The exact path reads the case-sensitive exact-length array; '%part%'
\* validates the candidates against the folded cached texts.
QueryPatternIlikeSlow(v, parsed, min_len) ==
    IF parsed.part_count = 1
    THEN (IF ~parsed.starts_percent /\ ~parsed.ends_percent
          THEN ExactFilteredIlike(biscuit_match_part_at_pos(v, parsed.parts[1], 0),
                                  LengthEntry(v.ci.length_bitmaps, min_len),
                                  min_len < v.ci.max_length)
          ELSE IF ~parsed.starts_percent THEN biscuit_match_part_at_pos(v, parsed.parts[1], 0)
          ELSE IF ~parsed.ends_percent THEN biscuit_match_part_at_end(v, parsed.parts[1])
          ELSE SubstringValidated(
                   BmAnd(SubstringCandidates(v.ci.char_cache_lower, parsed.parts[1],
                                             AllNotTombstoned),
                         biscuit_get_length_ge_lower(v.ci, min_len)),
                   data_cache_lower, parsed.parts[1]))
    ELSE IF parsed.part_count = 2 /\ ~parsed.starts_percent /\ ~parsed.ends_percent
    THEN TwoPart(v, parsed, min_len)
    ELSE MultiPart(v, parsed, min_len, max_len)

\* the fast paths of biscuit_query_pattern_ilike over the folded pattern:
\* the empty pattern and the patterns of '_' only read the case-sensitive
\* exact-length array
QueryPatternIlikeParsed(ci, pattern, parsed) ==
    IF Len(pattern) = 0
    THEN PtrSet(LengthEntry(ci.length_bitmaps, 0))
    ELSE IF pattern = <<Percent>> THEN AllNotTombstoned
    ELSE IF OnlyWildcards(pattern)
    THEN (IF HasPercent(pattern)
          THEN biscuit_get_length_ge_lower(ci, WildcardCount(pattern))
          ELSE IF WildcardCount(pattern) < ci.max_length
          THEN PtrSet(LengthEntry(ci.length_bitmaps, WildcardCount(pattern)))
          ELSE {})
    ELSE IF parsed.part_count = 0 THEN AllNotTombstoned
    ELSE FilterTombstones(QueryPatternIlikeSlow(View(1, TRUE, FALSE), parsed,
                                                RemainingLen(parsed.parts, 1)))

\* biscuit_query_pattern_ilike: ILIKE on an index of one column; the
\* pattern is folded first
biscuit_query_pattern_ilike(pattern) ==
    QueryPatternIlikeParsed(column_indices[1], biscuit_str_tolower(pattern),
                            biscuit_parse_pattern(biscuit_str_tolower(pattern)))

\* arr[k] where the code reads it behind "k <= max_length": the entry, or
\* a stray pointer when k is past the end of the array.  An array has been
\* grown to at least six entries before max_length can be its size, and no
\* pattern of the model has six characters: the case does not arise.
GuardedEntry(arr, k) == IF k + 1 > Len(arr) THEN Some({Stray}) ELSE arr[k + 1]

\* the bitmap of arr[k] behind "k <= max_length && arr[k]"
GuardedCopy(arr, k, max_length) ==
    IF k <= max_length /\ arr # <<>> THEN PtrSet(GuardedEntry(arr, k)) ELSE {}

\* the paths of biscuit_query_column_pattern for a pattern with a literal;
\* '%part%' validates the candidates against the cached texts of the column
QueryColumnPatternSlow(v, parsed, min_len) ==
    IF parsed.part_count = 1
    THEN (IF ~parsed.starts_percent /\ ~parsed.ends_percent
          THEN ExactFiltered(biscuit_match_part_at_pos(v, parsed.parts[1], 0),
                             GuardedEntry(v.ci.length_bitmaps, min_len),
                             min_len <= v.ci.max_length)
          ELSE IF ~parsed.starts_percent THEN biscuit_match_part_at_pos(v, parsed.parts[1], 0)
          ELSE IF ~parsed.ends_percent THEN biscuit_match_part_at_end(v, parsed.parts[1])
          ELSE SubstringValidated(
                   BmAnd(SubstringCandidates(v.ci.char_cache, parsed.parts[1],
                                             0..(num_records - 1)),
                         biscuit_get_col_length_ge(v.ci, min_len)),
                   data_cache[v.col], parsed.parts[1]))
    ELSE IF parsed.part_count = 2 /\ ~parsed.starts_percent /\ ~parsed.ends_percent
    THEN TwoPart(v, parsed, min_len)
    ELSE MultiPart(v, parsed, min_len, v.ci.max_length)

\* the safety checks and fast paths of biscuit_query_column_pattern
QueryColumnPatternParsed(ci, col, pattern, parsed) ==
    IF ci.length_bitmaps = <<>> \/ ci.length_ge_bitmaps = <<>> THEN {}
    ELSE IF ci.max_length <= 0 THEN {}
    ELSE IF Len(pattern) = 0 THEN PtrSet(LengthEntry(ci.length_bitmaps, 0))
    ELSE IF pattern = <<Percent>> THEN PtrSet(LengthEntry(ci.length_ge_bitmaps, 0))
    ELSE IF OnlyWildcards(pattern)
    THEN (IF HasPercent(pattern)
          THEN GuardedCopy(ci.length_ge_bitmaps, WildcardCount(pattern), ci.max_length)
          ELSE GuardedCopy(ci.length_bitmaps, WildcardCount(pattern), ci.max_length))
    ELSE IF parsed.part_count = 0 THEN PtrSet(LengthEntry(ci.length_ge_bitmaps, 0))
    ELSE FilterTombstones(QueryColumnPatternSlow(View(col, FALSE, TRUE), parsed,
                                                 RemainingLen(parsed.parts, 1)))

\* biscuit_query_column_pattern: LIKE on column col of an index of
\* several columns
biscuit_query_column_pattern(col, pattern) ==
    QueryColumnPatternParsed(column_indices[col], col, pattern, biscuit_parse_pattern(pattern))

\* the paths of biscuit_query_column_pattern_ilike for a pattern with a
\* literal; '%part%' matches the part at every position up to
\* max_length_lower minus its length
QueryColumnPatternIlikeSlow(v, parsed, min_len) ==
    IF parsed.part_count = 1
    THEN (IF ~parsed.starts_percent /\ ~parsed.ends_percent
          THEN ExactFilteredIlike(biscuit_match_part_at_pos(v, parsed.parts[1], 0),
                                  IF v.ci.length_bitmaps_lower = <<>> THEN NULL
                                  ELSE GuardedEntry(v.ci.length_bitmaps_lower, min_len),
                                  min_len <= v.ci.max_length_lower)
          ELSE IF ~parsed.starts_percent THEN biscuit_match_part_at_pos(v, parsed.parts[1], 0)
          ELSE IF ~parsed.ends_percent THEN biscuit_match_part_at_end(v, parsed.parts[1])
          ELSE BmOrAll({biscuit_match_part_at_pos(v, parsed.parts[1], i)
                        : i \in 0..(v.ci.max_length_lower - min_len)}))
    ELSE IF parsed.part_count = 2 /\ ~parsed.starts_percent /\ ~parsed.ends_percent
    THEN TwoPart(v, parsed, min_len)
    ELSE MultiPart(v, parsed, min_len, v.ci.max_length_lower)

\* the safety check and fast paths of biscuit_query_column_pattern_ilike
\* over the folded pattern
QueryColumnPatternIlikeParsed(ci, col, pattern, parsed) ==
    IF ci.max_length_lower <= 0 THEN {}
    ELSE IF Len(pattern) = 0 THEN PtrSet(LengthEntry(ci.length_bitmaps_lower, 0))
    ELSE IF pattern = <<Percent>> THEN PtrSet(LengthEntry(ci.length_ge_bitmaps_lower, 0))
    ELSE IF OnlyWildcards(pattern)
    THEN (IF HasPercent(pattern)
          THEN GuardedCopy(ci.length_ge_bitmaps_lower, WildcardCount(pattern),
                           ci.max_length_lower)
          ELSE GuardedCopy(ci.length_bitmaps_lower, WildcardCount(pattern),
                           ci.max_length_lower))
    ELSE IF parsed.part_count = 0 THEN PtrSet(LengthEntry(ci.length_ge_bitmaps_lower, 0))
    ELSE FilterTombstones(QueryColumnPatternIlikeSlow(View(col, TRUE, TRUE), parsed,
                                                      RemainingLen(parsed.parts, 1)))

\* biscuit_query_column_pattern_ilike: ILIKE on column col of an index of
\* several columns; the pattern is folded first
biscuit_query_column_pattern_ilike(col, pattern) ==
    QueryColumnPatternIlikeParsed(column_indices[col], col, biscuit_str_tolower(pattern),
                                  biscuit_parse_pattern(biscuit_str_tolower(pattern)))

(* -------------------------------- scans -------------------------------- *)

\* the patterns of the scan keys: '', '%', '__', '_%', 'Aa', 'a' U+00E9,
\* 'a_a', 'a%', 'A%', '%a', '%' U+00E9 '%', 'a%a', '%a%a' and 'a%_%'
Patterns ==
    {<<>>, <<37>>, <<95, 95>>, <<95, 37>>, <<65, 97>>, <<97, 195, 169>>,
     <<97, 95, 97>>, <<97, 37>>, <<65, 37>>, <<37, 97>>, <<37, 195, 169, 37>>,
     <<97, 37, 97>>, <<37, 97, 37, 97>>, <<97, 37, 95, 37>>}

Strategies ==
    {BISCUIT_LIKE_STRATEGY, BISCUIT_NOT_LIKE_STRATEGY,
     BISCUIT_ILIKE_STRATEGY, BISCUIT_NOT_ILIKE_STRATEGY}

\* the bitmap of one scan key: the query function of its strategy, and
\* for the NOT strategies the records [0, num_records) without its result
KeyResult(key) ==
    LET is_ilike == key.strategy \in {BISCUIT_ILIKE_STRATEGY, BISCUIT_NOT_ILIKE_STRATEGY}
        is_not == key.strategy \in {BISCUIT_NOT_LIKE_STRATEGY, BISCUIT_NOT_ILIKE_STRATEGY}
        key_result ==
            IF num_columns > 1
            THEN (IF is_ilike THEN biscuit_query_column_pattern_ilike(key.col, key.pattern)
                  ELSE biscuit_query_column_pattern(key.col, key.pattern))
            ELSE (IF is_ilike THEN biscuit_query_pattern_ilike(key.pattern)
                  ELSE biscuit_query_pattern(key.pattern))
    IN  IF is_not THEN BmAndNot(0..(num_records - 1), key_result) ELSE key_result

\* biscuit_collect_tids_optimized with needs_sorting and no limit hint:
\* the TIDs of the records of the bitmap, sorted
biscuit_collect_tids_optimized(result) ==
    Ascending({tids[rec + 1] : rec \in {r \in result : r < num_records}})

\* biscuit_rescan (and biscuit_rescan_multicolumn, which it calls for an
\* index of several columns) of a regular index scan with one scan key;
\* the plan of one predicate is that predicate.  The results stay in the
\* scan until biscuit_endscan; the model runs one scan at a time and no
\* other operation while it is open.  A query that copies what it read
\* past the end of a length array ends the process.
biscuit_rescan(key) ==
    /\ fault # "crash"
    /\ so_keys = <<>>
    /\ \E result \in {IF num_records = 0 THEN {}
                      ELSE FilterTombstones(KeyResult(key))} :
           \/ /\ Stray \in result
              /\ fault' = "crash"
              /\ UNCHANGED <<so_keys, so_results>>
           \/ /\ Stray \notin result
              /\ so_keys' = <<key>>
              /\ so_results' = biscuit_collect_tids_optimized(result)
              /\ fault' = fault
    /\ UNCHANGED <<num_columns, num_records, tids, data_cache, data_cache_lower,
                   tombstones, tombstone_count, free_list, max_len, column_indices, heap>>

\* biscuit_endscan: the results are freed
biscuit_endscan ==
    /\ so_keys # <<>>
    /\ so_keys' = <<>>
    /\ so_results' = <<>>
    /\ UNCHANGED <<num_columns, num_records, tids, data_cache, data_cache_lower,
                   tombstones, tombstone_count, free_list, max_len, column_indices,
                   heap, fault>>

(* ---------------------------- specification ---------------------------- *)

Next ==
    \/ \E tid \in Tids : \E vals \in Rows(num_columns) :
           biscuit_insert(tid, vals) /\ UNCHANGED <<pre_insert, delete_count, compacted, QueryCancelPending, insert_results>>
    \/ \E dead \in (SUBSET Tids) \ {{}} : biscuit_bulkdelete(dead) /\ UNCHANGED <<pre_insert, delete_count, compacted, QueryCancelPending, insert_results>>
    \/ biscuit_load_index /\ UNCHANGED <<pre_insert, delete_count, compacted, QueryCancelPending, insert_results>>
    \/ \E col \in Cols : \E strategy \in Strategies : \E pattern \in Patterns :
           /\ biscuit_rescan([col |-> col, strategy |-> strategy, pattern |-> pattern])
           /\ UNCHANGED <<pre_insert, delete_count, compacted, QueryCancelPending, insert_results>>
    \/ biscuit_endscan /\ UNCHANGED <<pre_insert, delete_count, compacted, QueryCancelPending, insert_results>>

\* an index on one column
Init == InitIndex(1)

Spec == Init /\ [][Next]_vars

\* an index on two columns
InitMulti == InitIndex(2)

SpecMulti == InitMulti /\ [][Next]_vars

(* ------------------------- reference semantics ------------------------ *)

\* SQL LIKE over characters: pattern characters p[i ..] against text
\* characters t[j ..]; '%' stands for zero or more characters, '_' for
\* exactly one
RECURSIVE LikeFrom(_, _, _, _)
LikeFrom(p, t, i, j) ==
    IF i > Len(p) THEN j > Len(t)
    ELSE IF p[i] = <<Percent>>
    THEN \E k \in j..(Len(t) + 1) : LikeFrom(p, t, i + 1, k)
    ELSE /\ j <= Len(t)
         /\ p[i] = <<Underscore>> \/ p[i] = t[j]
         /\ LikeFrom(p, t, i + 1, j + 1)

SqlLike(text, pattern) == LikeFrom(Utf8Chars(pattern), Utf8Chars(text), 1, 1)

\* the TIDs of the rows of the table: inserted and not bulk-deleted since
HeapTids == {t \in Tids : heap[t] # NULL}

\* the text of column col of the row at TID t
HeapText(t, col) == Deref(heap[t])[col]

SeqSet(s) == {s[i] : i \in 1..Len(s)}

\* the key of the scan in progress
ScanKey == so_keys[1]

\* what a scan with the key of the scan in progress and strategy strategy
\* returns in the same state of the index
ScanTidsAs(strategy) ==
    IF num_records = 0 THEN <<>>
    ELSE biscuit_collect_tids_optimized(
             FilterTombstones(KeyResult([ScanKey EXCEPT !.strategy = strategy])))

(* ------------------------------- C1 ------------------------------------ *)

\* C1: after any sequence of inserts, updates and bulk deletes, a LIKE
\* query returns exactly the rows whose text in the column of the key
\* matches the pattern under SQL LIKE.
C1_LikeIsSqlLike ==
    (so_keys # <<>> /\ ScanKey.strategy = BISCUIT_LIKE_STRATEGY) =>
        SeqSet(so_results) =
            {t \in HeapTids : SqlLike(HeapText(t, ScanKey.col), ScanKey.pattern)}

(* ------------------------------- C2 ------------------------------------ *)

\* C2: no query of any strategy and pattern returns the TID of a row that
\* was bulk-deleted and has not been inserted again.
C2_NoDeletedReturned ==
    so_keys # <<>> => \A i \in 1..Len(so_results) : heap[so_results[i]] # NULL

(* ------------------------------- C3 ------------------------------------ *)

\* C3: LIKE '%' returns as many TIDs as there are rows: those inserted
\* less those bulk-deleted.
C3_PercentCountsLive ==
    (so_keys # <<>> /\ ScanKey.strategy = BISCUIT_LIKE_STRATEGY
                    /\ ScanKey.pattern = <<Percent>>) =>
        Len(so_results) = Cardinality(HeapTids)

(* ------------------------------- C4 ------------------------------------ *)

\* C4: at every quiescent point every record id on the free list is a
\* member of the tombstone set.
C4_FreeListInTombstones ==
    \A i \in 1..Len(free_list) : free_list[i] \in tombstones

(* ------------------------------- C5 ------------------------------------ *)

\* C5: a record id is stable for the lifetime of its record: an insert of
\* a different TID leaves the TID and the cached text of every live record
\* as they are.
C5_RecordIdStable ==
    [][\A tid \in Tids : \A vals \in Rows(num_columns) :
          biscuit_insert(tid, vals) =>
              \A r \in LiveRecords :
                  tids[r + 1] # tid =>
                      /\ tids'[r + 1] = tids[r + 1]
                      /\ \A c \in Cols : data_cache'[c][r + 1] = data_cache[c][r + 1]]_vars

(* ------------------------------- C6 ------------------------------------ *)

\* C6: the result of NOT LIKE p is the set of all rows less the result of
\* LIKE p, and the result of NOT ILIKE p is the set of all rows less the
\* result of ILIKE p.
C6_NotIsComplement ==
    /\ (so_keys # <<>> /\ ScanKey.strategy = BISCUIT_NOT_LIKE_STRATEGY) =>
           SeqSet(so_results) = HeapTids \ SeqSet(ScanTidsAs(BISCUIT_LIKE_STRATEGY))
    /\ (so_keys # <<>> /\ ScanKey.strategy = BISCUIT_NOT_ILIKE_STRATEGY) =>
           SeqSet(so_results) = HeapTids \ SeqSet(ScanTidsAs(BISCUIT_ILIKE_STRATEGY))

(* ------------------------------- C7 ------------------------------------ *)

\* C7: ILIKE p returns a row of text T if and only if LIKE of the folded
\* pattern matches the folded T, for every shape of pattern.
C7_IlikeIsLikeOfFolded ==
    (so_keys # <<>> /\ ScanKey.strategy = BISCUIT_ILIKE_STRATEGY) =>
        SeqSet(so_results) =
            {t \in HeapTids : SqlLike(biscuit_str_tolower(HeapText(t, ScanKey.col)),
                                      biscuit_str_tolower(ScanKey.pattern))}

(* ------------------------------- C8 ------------------------------------ *)

\* the equation of C8 for one pair of length arrays
GEIsUnionOfExact(exact, ge) ==
    \A k \in 0..(Len(ge) - 1) :
        PtrSet(LengthEntry(ge, k)) = UnionExactFrom(exact, k)

\* C8: for every column, for the case-sensitive and the folded index and
\* for every k, the length-at-least bitmap of k is the union of the
\* exact-length bitmaps of all j >= k.
C8_LengthGEIsUnion ==
    \A c \in Cols :
        /\ GEIsUnionOfExact(column_indices[c].length_bitmaps,
                            column_indices[c].length_ge_bitmaps)
        /\ GEIsUnionOfExact(column_indices[c].length_bitmaps_lower,
                            column_indices[c].length_ge_bitmaps_lower)

(* ------------------------------- C9 ------------------------------------ *)

\* C9: every live record R with text T of L characters is, for every
\* character position p in [0, L) and every byte b of the p-th character
\* of T, in the positive-position bitmap of (b, p) and in the
\* negative-position bitmap of (b, p - L).
C9_PositionalIndexComplete ==
    \A c \in Cols : \A r \in LiveRecords :
        LET chars == Utf8Chars(Deref(data_cache[c][r + 1]))
            L == Len(chars)
        IN  \A p \in 0..(L - 1) : \A b \in 1..Len(chars[p + 1]) :
                /\ r \in PtrSet(GetBitmap(column_indices[c].pos_idx[chars[p + 1][b]], p))
                /\ r \in PtrSet(GetBitmap(column_indices[c].neg_idx[chars[p + 1][b]], p - L))

\* a live record with a two-byte character in its text next to the
\* tombstone of a deleted record
C9_Witness ==
    /\ \E r \in LiveRecords : Deref(data_cache[1][r + 1]) = <<97, 195, 169, 97>>
    /\ tombstones # {}
    /\ fault = "none"

(* ------------------------------- C10 ----------------------------------- *)

\* C10: every live record R of L characters is in the exact-length bitmap
\* of L and in the length-at-least bitmap of every k in [0, L]; further
\* inserts do not remove it.
C10_LengthBitmapsComplete ==
    \A c \in Cols : \A r \in LiveRecords :
        LET L == biscuit_utf8_char_count(Deref(data_cache[c][r + 1]))
        IN  /\ r \in PtrSet(LengthEntry(column_indices[c].length_bitmaps, L))
            /\ \A k \in 0..L :
                   r \in PtrSet(LengthEntry(column_indices[c].length_ge_bitmaps, k))

(* ------------------------------- C11 ----------------------------------- *)

\* record r is in a positional bitmap of the column: a positive or
\* negative position entry or a character cache, case-sensitive or folded
InPositional(ci, r) ==
    \E ch \in IdxBytes :
        \/ \E i \in 1..Len(ci.pos_idx[ch]) : r \in ci.pos_idx[ch][i].bitmap
        \/ \E i \in 1..Len(ci.neg_idx[ch]) : r \in ci.neg_idx[ch][i].bitmap
        \/ r \in PtrSet(ci.char_cache[ch])
        \/ \E i \in 1..Len(ci.pos_idx_lower[ch]) : r \in ci.pos_idx_lower[ch][i].bitmap
        \/ \E i \in 1..Len(ci.neg_idx_lower[ch]) : r \in ci.neg_idx_lower[ch][i].bitmap
        \/ r \in PtrSet(ci.char_cache_lower[ch])

NoTombstoneIndexed ==
    \A c \in Cols : \A r \in tombstones : ~InPositional(column_indices[c], r)

\* C11: immediately after every bulk delete, with or without compaction,
\* no record id of the tombstone set is in a positional bitmap of any
\* column.
C11_TombstonesNotIndexed ==
    [][((\E dead \in (SUBSET Tids) \ {{}} : biscuit_bulkdelete(dead)) /\ fault' # "crash")
           => NoTombstoneIndexed']_vars


(* ------------------- allocation failure in a mutation ------------------- *)

\* biscuit_insert ended by the out-of-memory ERROR of the allocation that
\* copies the text into the cache (pnstrdup for one column,
\* biscuit_datum_to_text of the first column for several).  The function
\* has no PG_TRY block, so what it did before the ERROR stays in the cached
\* index: the slot is chosen and cleaned, its TID is stored, and for one
\* column max_len is raised.  The statement is rolled back: the table
\* keeps its rows.
biscuit_insert_error(tid, vals) ==
    LET found_existing == ChooseSlot(tid).found_existing
        is_reusing_slot == ChooseSlot(tid).is_reusing_slot
        rec_idx == ChooseSlot(tid).rec_idx
    IN  /\ fault # "crash"
        /\ so_keys = <<>>
        /\ UNCHANGED <<so_keys, so_results>>
        /\ fault' = fault
        /\ num_records' = IF found_existing \/ is_reusing_slot
                          THEN num_records ELSE num_records + 1
        /\ tids' = SetSlot(tids, rec_idx, tid)
        /\ data_cache' = [c \in Cols |-> SetSlot(data_cache[c], rec_idx, NULL)]
        /\ data_cache_lower' =
               IF num_columns = 1 THEN SetSlot(data_cache_lower, rec_idx, NULL)
               ELSE data_cache_lower
        /\ tombstones' =
               IF found_existing
               THEN (IF tombstone_count > 0 THEN tombstones \ {rec_idx} ELSE tombstones)
               ELSE IF is_reusing_slot THEN tombstones \ {rec_idx}
               ELSE tombstones
        /\ tombstone_count' =
               IF found_existing
               THEN (IF tombstone_count > 0 /\ rec_idx \in tombstones
                     THEN tombstone_count - 1 ELSE tombstone_count)
               ELSE IF is_reusing_slot THEN tombstone_count - 1
               ELSE tombstone_count
        /\ free_list' = IF is_reusing_slot
                        THEN SubSeq(free_list, 1, Len(free_list) - 1)
                        ELSE free_list
        /\ max_len' = IF num_columns = 1
                      THEN Max(max_len, biscuit_utf8_char_count(vals[1]))
                      ELSE max_len
        /\ column_indices' = IF found_existing \/ is_reusing_slot
                             THEN biscuit_remove_from_all_indices(column_indices, rec_idx)
                             ELSE column_indices
        /\ UNCHANGED <<num_columns, heap>>

\* biscuit_bulkdelete ended by the out-of-memory ERROR of
\* biscuit_roaring_to_array, the first allocation after the marking loop:
\* the records are tombstoned and on the free list, and still in every
\* bitmap and in the cache.  The rows in dead were deleted from the table
\* before the vacuum began.
biscuit_bulkdelete_error(dead) ==
    LET records_to_delete ==
            {i \in 0..(num_records - 1) :
                /\ data_cache[1][i + 1] # NULL
                /\ i \notin tombstones
                /\ tids[i + 1] \in dead}
    IN  /\ fault # "crash"
        /\ so_keys = <<>>
        /\ UNCHANGED <<so_keys, so_results>>
        /\ \A t \in dead : heap[t] # NULL
        /\ records_to_delete # {}
        /\ Len(free_list) + Cardinality(records_to_delete) <= MaxFree
        /\ fault' = fault
        /\ tombstones' = tombstones \cup records_to_delete
        /\ tombstone_count' = tombstone_count + Cardinality(records_to_delete)
        /\ free_list' = free_list \o Ascending(records_to_delete)
        /\ heap' = [t \in Tids |-> IF t \in dead THEN NULL ELSE heap[t]]
        /\ UNCHANGED <<num_columns, num_records, tids, data_cache, data_cache_lower,
                       max_len, column_indices>>

\* the mutations and the load, each mutation also in the run that ends in
\* an allocation failure
NextError ==
    \/ \E tid \in Tids, vals \in Rows(num_columns) :
           biscuit_insert(tid, vals) /\ UNCHANGED <<pre_insert, delete_count, compacted, QueryCancelPending, insert_results>>
    \/ \E dead \in (SUBSET Tids) \ {{}} : biscuit_bulkdelete(dead) /\ UNCHANGED <<pre_insert, delete_count, compacted, QueryCancelPending, insert_results>>
    \/ biscuit_load_index /\ UNCHANGED <<pre_insert, delete_count, compacted, QueryCancelPending, insert_results>>
    \/ \E tid \in Tids, vals \in Rows(num_columns) :
           biscuit_insert_error(tid, vals) /\ UNCHANGED <<pre_insert, delete_count, compacted, QueryCancelPending, insert_results>>
    \/ \E dead \in (SUBSET Tids) \ {{}} :
           biscuit_bulkdelete_error(dead) /\ UNCHANGED <<pre_insert, delete_count, compacted, QueryCancelPending, insert_results>>

SpecError == Init /\ [][NextError]_vars

\* the cached index, without the table and the scan
IndexState ==
    <<num_records, tids, data_cache, data_cache_lower, tombstones, tombstone_count,
      free_list, max_len, column_indices>>

\* the record of tid holds vals in the cache, as a completed insert leaves it
InsertCompleted(tid, vals) ==
    \E r \in 0..(num_records - 1) :
        /\ tids[r + 1] = tid
        /\ \A c \in Cols : data_cache[c][r + 1] = Some(vals[c])

\* the records of dead are out of the cache, as a completed bulk delete
\* leaves them
DeleteCompleted(dead) ==
    \A r \in 0..(num_records - 1) : tids[r + 1] \in dead => data_cache[1][r + 1] = NULL

\* C12: a mutation that fails part-way leaves the index in the state of
\* the completed mutation or exactly in the state before it.
C12_FailureIsAtomic ==
    [][/\ \A tid \in Tids, vals \in Rows(num_columns) :
              biscuit_insert_error(tid, vals)
                  => (UNCHANGED IndexState \/ InsertCompleted(tid, vals)')
       /\ \A dead \in (SUBSET Tids) \ {{}} :
              biscuit_bulkdelete_error(dead)
                  => (UNCHANGED IndexState \/ DeleteCompleted(dead)')]_vars


(* ------------------------------- C14 ----------------------------------- *)

\* the TIDs that a scan hands out for the bitmap result, Stray when the
\* query ends the process
ResultTids(result) ==
    IF Stray \in result THEN {Stray}
    ELSE {tids[rec + 1] : rec \in {r \in result : r < num_records}}

\* what biscuit_rescan returns for every key in the present state
AllResults ==
    [c \in Cols |-> [strategy \in Strategies |-> [pattern \in Patterns |->
        IF num_records = 0 THEN {}
        ELSE ResultTids(FilterTombstones(
                 KeyResult([col |-> c, strategy |-> strategy, pattern |-> pattern])))]]]

\* the mutations and the load, with the history of the last insert: the
\* insert of a row at a TID where the table has none records the results
\* of every query before it, the bulk delete of just that TID keeps them,
\* and every other operation forgets them
NextRoundTrip ==
    \/ \E tid \in Tids, vals \in Rows(num_columns) :
           /\ biscuit_insert(tid, vals)
           /\ pre_insert' = IF heap[tid] = NULL /\ fault' # "crash"
                            THEN Some([tid |-> tid, deleted |-> FALSE, results |-> AllResults])
                            ELSE NULL
           /\ UNCHANGED <<delete_count, compacted, QueryCancelPending, insert_results>>
    \/ \E dead \in (SUBSET Tids) \ {{}} :
           /\ biscuit_bulkdelete(dead)
           /\ pre_insert' = IF pre_insert # NULL /\ fault' # "crash"
                            THEN (IF ~Deref(pre_insert).deleted /\ dead = {Deref(pre_insert).tid}
                                  THEN Some([Deref(pre_insert) EXCEPT !.deleted = TRUE])
                                  ELSE NULL)
                            ELSE NULL
           /\ UNCHANGED <<delete_count, compacted, QueryCancelPending, insert_results>>
    \/ biscuit_load_index /\ pre_insert' = NULL /\ UNCHANGED <<delete_count, compacted, QueryCancelPending, insert_results>>

SpecRoundTrip == Init /\ [][NextRoundTrip]_vars

\* C14: the insert of a row at a fresh TID followed by the bulk delete of
\* exactly that TID leaves every query with the result it had before the
\* insert.
C14_InsertDeleteRoundTrip ==
    (pre_insert # NULL /\ Deref(pre_insert).deleted)
        => AllResults = Deref(pre_insert).results


(* ------------------------------- C15 ----------------------------------- *)

\* rows of two columns with the empty text in one column or in both
RowsWithEmpty == {<<<<>>, <<>>>>, <<<<65, 97>>, <<>>>>, <<<<>>, <<65, 97>>>>}

\* the tables with no row or with one such row at the first TID
InitTablesWithEmpty ==
    {[t \in Tids |-> NULL]} \cup
    {[t \in Tids |-> IF t = 1 THEN Some(r) ELSE NULL] : r \in RowsWithEmpty}

\* an index on two columns of a table with empty texts
InitWithEmpty == InitIndexOn(InitTablesWithEmpty, 2)

\* the operations over rows with empty texts; the scans have the empty
\* pattern or '%'
NextWithEmpty ==
    \/ \E tid \in Tids : \E vals \in RowsWithEmpty :
           biscuit_insert(tid, vals) /\ UNCHANGED <<pre_insert, delete_count, compacted, QueryCancelPending, insert_results>>
    \/ \E dead \in (SUBSET Tids) \ {{}} : biscuit_bulkdelete(dead) /\ UNCHANGED <<pre_insert, delete_count, compacted, QueryCancelPending, insert_results>>
    \/ biscuit_load_index /\ UNCHANGED <<pre_insert, delete_count, compacted, QueryCancelPending, insert_results>>
    \/ \E col \in Cols : \E strategy \in Strategies : \E pattern \in {<<>>, <<Percent>>} :
           /\ biscuit_rescan([col |-> col, strategy |-> strategy, pattern |-> pattern])
           /\ UNCHANGED <<pre_insert, delete_count, compacted, QueryCancelPending, insert_results>>
    \/ biscuit_endscan /\ UNCHANGED <<pre_insert, delete_count, compacted, QueryCancelPending, insert_results>>

SpecWithEmpty == InitWithEmpty /\ [][NextWithEmpty]_vars

\* C15: a LIKE or ILIKE query with the empty pattern returns exactly the
\* rows whose text in the column of the key has no character.
C15_EmptyPatternMatchesEmpty ==
    (/\ so_keys # <<>>
     /\ ScanKey.pattern = <<>>
     /\ ScanKey.strategy \in {BISCUIT_LIKE_STRATEGY, BISCUIT_ILIKE_STRATEGY})
        => SeqSet(so_results) = {t \in HeapTids : HeapText(t, ScanKey.col) = <<>>}


(* ----------------------------- TID sorting ----------------------------- *)

\* RADIX_SORT_THRESHOLD, scaled from 5000
RADIX_SORT_THRESHOLD == 3

\* the buckets of one radix pass over the block number, scaled from 256
\* (one byte)
RADIX_BUCKETS == 4

\* the buckets of the counting sort over offsets, scaled from 512
OFFSET_BUCKETS == 4

\* the longest array that is sorted
MaxSortCount == 4

\* block numbers: two that both radix passes tell apart from every other,
\* one that lies above the dense range, and one that differs from the
\* others above the bits of the two passes
SortBlocks == {0, 1, 9, 17}

SortOffsets == {1, 2}

\* the TIDs of the arrays that are sorted: block number and offset
SortTids == [block : SortBlocks, offset : SortOffsets]

\* biscuit_compare_tids: -1, 0 or 1
biscuit_compare_tids(a, b) ==
    IF a.block < b.block THEN 0 - 1
    ELSE IF a.block > b.block THEN 1
    ELSE IF a.offset < b.offset THEN 0 - 1
    ELSE IF a.offset > b.offset THEN 1
    ELSE 0

\* qsort with biscuit_compare_tids: elements that compare equal are equal
\* TIDs, so the outcome is the one ordered arrangement
RECURSIVE qsort(_)
qsort(arr) ==
    IF arr = <<>> THEN <<>>
    ELSE LET i == CHOOSE i \in 1..Len(arr) :
                      \A j \in 1..Len(arr) : biscuit_compare_tids(arr[i], arr[j]) <= 0
         IN  <<arr[i]>> \o qsort(SubSeq(arr, 1, i - 1) \o SubSeq(arr, i + 1, Len(arr)))

\* the elements of arr whose key is k, in the order of arr
RECURSIVE KeyedAt(_, _, _, _, _)
KeyedAt(arr, fld, div, buckets, k) ==
    IF arr = <<>> THEN <<>>
    ELSE (IF (arr[1][fld] \div div) % buckets = k THEN <<arr[1]>> ELSE <<>>)
             \o KeyedAt(Tail(arr), fld, div, buckets, k)

\* one counting pass (count per bucket, starting positions, distribute in
\* array order): bucket after bucket from k on, each in the order of arr
RECURSIVE CountingPass(_, _, _, _, _)
CountingPass(arr, fld, div, buckets, k) ==
    IF k >= buckets THEN <<>>
    ELSE KeyedAt(arr, fld, div, buckets, k) \o CountingPass(arr, fld, div, buckets, k + 1)

RECURSIVE MaxBlock(_)
MaxBlock(arr) == IF arr = <<>> THEN 0 ELSE Max(arr[1].block, MaxBlock(Tail(arr)))

\* the end of the run of equal block numbers that begins at start
RECURSIVE BlockEnd(_, _, _)
BlockEnd(temp, start, block_end) ==
    IF block_end <= Len(temp) /\ temp[block_end].block = temp[start].block
    THEN BlockEnd(temp, start, block_end + 1)
    ELSE block_end

\* the elements of arr with an offset below OFFSET_BUCKETS
RECURSIVE ValidOffsets(_)
ValidOffsets(arr) ==
    IF arr = <<>> THEN <<>>
    ELSE (IF arr[1].offset < OFFSET_BUCKETS THEN <<arr[1]>> ELSE <<>>)
             \o ValidOffsets(Tail(arr))

\* the offset phase of biscuit_radix_sort_tids from start on: every run of
\* one block number of temp is counting-sorted by offset into its place;
\* an element with an offset of OFFSET_BUCKETS or more is skipped, and the
\* places that stay unwritten keep what the array held (the same as temp)
RECURSIVE SortRuns(_, _)
SortRuns(temp, start) ==
    IF start > Len(temp) THEN <<>>
    ELSE LET block_end == BlockEnd(temp, start, start + 1)
             run    == SubSeq(temp, start, block_end - 1)
             valid  == CountingPass(ValidOffsets(run), "offset", 1, OFFSET_BUCKETS, 0)
             sorted == IF Len(run) > 1
                       THEN valid \o SubSeq(run, Len(valid) + 1, Len(run))
                       ELSE run
         IN  sorted \o SortRuns(temp, block_end)

\* biscuit_radix_sort_tids: dense block numbers are counting-sorted with
\* one bucket per block; others by two passes, over the lowest radix digit
\* of the block number and over the next one
biscuit_radix_sort_tids(arr) ==
    IF Len(arr) <= 1 THEN arr
    ELSE IF MaxBlock(arr) < Len(arr) * 2
    THEN SortRuns(CountingPass(arr, "block", 1, MaxBlock(arr) + 1, 0), 1)
    ELSE SortRuns(CountingPass(CountingPass(arr, "block", 1, RADIX_BUCKETS, 0),
                               "block", RADIX_BUCKETS, RADIX_BUCKETS, 0), 1)

\* biscuit_sort_tids_by_block
biscuit_sort_tids_by_block(arr) ==
    IF Len(arr) <= 1 THEN arr
    ELSE IF Len(arr) < RADIX_SORT_THRESHOLD THEN qsort(arr)
    ELSE biscuit_radix_sort_tids(arr)

\* the arrays of TIDs that a scan collects
SortInputs == UNION {[1..n -> SortTids] : n \in 0..MaxSortCount}

\* the index built on an empty table, and the TIDs that a scan has
\* collected in so->results before they are sorted
InitSort ==
    /\ num_columns = 1
    /\ heap = [t \in Tids |-> NULL]
    /\ num_records = 0
    /\ tids = <<>>
    /\ data_cache = BuiltIndex(heap, 1, FALSE).data_cache
    /\ data_cache_lower = <<>>
    /\ tombstones = {}
    /\ tombstone_count = 0
    /\ free_list = <<>>
    /\ max_len = 0
    /\ column_indices = BuiltIndex(heap, 1, FALSE).column_indices
    /\ fault = "none"
    /\ so_keys = <<>>
    /\ so_results \in SortInputs
    /\ pre_insert = NULL
    /\ delete_count = 0
    /\ compacted = {}
    /\ QueryCancelPending = FALSE
    /\ insert_results = NULL

\* the call of biscuit_sort_tids_by_block on the collected TIDs
SortResults ==
    /\ so_results' = biscuit_sort_tids_by_block(so_results)
    /\ UNCHANGED <<num_columns, num_records, tids, data_cache, data_cache_lower,
                   tombstones, tombstone_count, free_list, max_len, column_indices,
                   heap, fault, so_keys, pre_insert, delete_count, compacted, QueryCancelPending, insert_results>>

SpecSort == InitSort /\ [][SortResults]_vars

(* ------------------------------- C16 ----------------------------------- *)

\* ascending block number and, within a block, ascending offset
AscendingTids(arr) ==
    \A i \in 1..(Len(arr) - 1) : biscuit_compare_tids(arr[i], arr[i + 1]) <= 0

\* C16: the sorted array is in ascending order of block number and, within
\* equal block numbers, of offset, for every count and every range of
\* block numbers.
C16_SortedByBlockAndOffset ==
    [][SortResults => AscendingTids(so_results')]_vars


(* ------------------------------- C17 ----------------------------------- *)

\* the patterns that the query functions hand to the recursive windowed
\* match: several parts, other than the two parts of 'abc%def'
Windowed(pattern) ==
    /\ ~OnlyWildcards(pattern)
    /\ biscuit_parse_pattern(pattern).part_count >= 2
    /\ ~(/\ biscuit_parse_pattern(pattern).part_count = 2
         /\ ~biscuit_parse_pattern(pattern).starts_percent
         /\ ~biscuit_parse_pattern(pattern).ends_percent)

\* C17: a LIKE query whose pattern is placed by the recursive windowed
\* match returns no row in which the segments of the pattern can only be
\* found overlapping, that is, no row of the table that the pattern does
\* not match.
C17_WindowedSegmentsDoNotOverlap ==
    (/\ so_keys # <<>>
     /\ ScanKey.strategy = BISCUIT_LIKE_STRATEGY
     /\ Windowed(ScanKey.pattern))
        => \A i \in 1..Len(so_results) :
               heap[so_results[i]] # NULL
                   => SqlLike(HeapText(so_results[i], ScanKey.col), ScanKey.pattern)


(* ------------------------------- C18 ----------------------------------- *)

\* slot rec_idx holds the row vals of tid
SlotHolds(rec_idx, tid, vals) ==
    /\ rec_idx < num_records
    /\ tids[rec_idx + 1] = tid
    /\ \A c \in Cols : data_cache[c][rec_idx + 1] = Some(vals[c])

Live(r) == data_cache[1][r + 1] # NULL /\ r \notin tombstones

\* the positions of the entries that hold r
EntriesWith(entries, r) ==
    {entries[i].pos : i \in {j \in 1..Len(entries) : r \in entries[j].bitmap}}

\* the lengths of the bitmaps of arr that hold r
LengthsWith(arr, r) == {k \in 1..Len(arr) : r \in PtrSet(arr[k])}

\* the bitmaps of a column that hold r
Membership(ci, r) ==
    [pos_idx |-> [ch \in IdxBytes |-> EntriesWith(ci.pos_idx[ch], r)],
     neg_idx |-> [ch \in IdxBytes |-> EntriesWith(ci.neg_idx[ch], r)],
     char_cache |-> {ch \in IdxBytes : r \in PtrSet(ci.char_cache[ch])},
     length_bitmaps |-> LengthsWith(ci.length_bitmaps, r),
     length_ge_bitmaps |-> LengthsWith(ci.length_ge_bitmaps, r),
     pos_idx_lower |-> [ch \in IdxBytes |-> EntriesWith(ci.pos_idx_lower[ch], r)],
     neg_idx_lower |-> [ch \in IdxBytes |-> EntriesWith(ci.neg_idx_lower[ch], r)],
     char_cache_lower |-> {ch \in IdxBytes : r \in PtrSet(ci.char_cache_lower[ch])},
     length_bitmaps_lower |-> LengthsWith(ci.length_bitmaps_lower, r),
     length_ge_bitmaps_lower |-> LengthsWith(ci.length_ge_bitmaps_lower, r)]

\* what the claim says a record keeps: liveness, TID, cached texts and the
\* bitmaps that hold it
RecordState(r) ==
    [live |-> Live(r),
     tid |-> tids[r + 1],
     text |-> [c \in Cols |-> data_cache[c][r + 1]],
     text_lower |-> IF num_columns = 1 THEN data_cache_lower[r + 1] ELSE NULL,
     bitmaps |-> [c \in Cols |-> Membership(column_indices[c], r)]]

\* the ids that a pass with the TIDs of dead deletes
ToDelete(dead) ==
    {r \in 0..(num_records - 1) : Live(r) /\ tids[r + 1] \in dead}

\* the most deletions that are counted
MaxDeleteCount == 3

\* the mutations and the load with the delete counter: the marking loop of
\* biscuit_bulkdelete counts every record it deletes, the load starts a
\* new index at 0 (biscuit_init_crud_structures)
NextCounters ==
    \/ \E tid \in Tids : \E vals \in Rows(num_columns) :
           biscuit_insert(tid, vals) /\ UNCHANGED <<pre_insert, delete_count, compacted, QueryCancelPending, insert_results>>
    \/ \E dead \in (SUBSET Tids) \ {{}} :
           /\ biscuit_bulkdelete(dead)
           /\ delete_count + Cardinality(ToDelete(dead)) <= MaxDeleteCount
           /\ delete_count' = delete_count + Cardinality(ToDelete(dead))
           /\ UNCHANGED <<pre_insert, compacted, QueryCancelPending, insert_results>>
    \/ biscuit_load_index /\ delete_count' = 0 /\ UNCHANGED <<pre_insert, compacted, QueryCancelPending, insert_results>>

SpecCounters == Init /\ [][NextCounters]_vars

NextCompact ==
    \/ \E tid \in Tids : \E vals \in Rows(num_columns) :
           /\ biscuit_insert(tid, vals)
           /\ compacted' = {}
           /\ UNCHANGED <<pre_insert, delete_count, QueryCancelPending, insert_results>>
    \/ \E dead \in (SUBSET Tids) \ {{}} :
           /\ biscuit_bulkdelete(dead)
           /\ compacted' =
                  IF /\ fault' # "crash"
                     /\ tombstone_count + Cardinality(ToDelete(dead)) >= TOMBSTONE_CLEANUP_THRESHOLD
                  THEN tombstones \cup ToDelete(dead)
                  ELSE {}
           /\ UNCHANGED <<pre_insert, delete_count, QueryCancelPending, insert_results>>
    \/ biscuit_load_index /\ compacted' = {} /\ UNCHANGED <<pre_insert, delete_count, QueryCancelPending, insert_results>>

SpecCompact == Init /\ [][NextCompact]_vars

\* C20: the freeing of the tombstone bitmap at the end of a bulk-delete
\* pass leaves the results of every query as they were just before it,
\* when biscuit_rescan still took the ids of that bitmap out of them.
C20_CompactionKeepsResults ==
    (compacted # {} /\ num_records > 0) =>
        \A c \in Cols : \A strategy \in Strategies : \A pattern \in Patterns :
            \E result \in {FilterTombstones(KeyResult([col |-> c, strategy |-> strategy,
                                                       pattern |-> pattern]))} :
                ResultTids(result) = ResultTids(BmAndNot(result, compacted))

(* ------------------- removal from the length bitmaps ------------------- *)

\* the length bitmaps of a column hold r at most where a record with the
\* text str belongs: the exact bitmap of its length, the >= bitmaps up to it
LengthsOnlyOf(ci, r, str) ==
    /\ \E n \in {biscuit_utf8_char_count(str)} :
           /\ LengthsWith(ci.length_bitmaps, r) \subseteq {n + 1}
           /\ LengthsWith(ci.length_ge_bitmaps, r) \subseteq 1..(n + 1)
    /\ \E n \in {biscuit_utf8_char_count(biscuit_str_tolower(str))} :
           /\ LengthsWith(ci.length_bitmaps_lower, r) \subseteq {n + 1}
           /\ LengthsWith(ci.length_ge_bitmaps_lower, r) \subseteq 1..(n + 1)

\* no length bitmap of a column holds r
InNoLength(ci, r) ==
    /\ LengthsWith(ci.length_bitmaps, r) = {}
    /\ LengthsWith(ci.length_ge_bitmaps, r) = {}
    /\ LengthsWith(ci.length_bitmaps_lower, r) = {}
    /\ LengthsWith(ci.length_ge_bitmaps_lower, r) = {}

\* C21: a bulk delete leaves the ids it deletes in no length bitmap of any
\* column, and an insert that takes the slot of its TID or a slot of the
\* free list leaves the id in the length bitmaps of the new text only: the
\* id has left every length bitmap it was in, the one of the largest
\* length included, before the slot is indexed again.
C21_LengthBitmapsCleared ==
    [][/\ \A dead \in (SUBSET Tids) \ {{}} :
              (biscuit_bulkdelete(dead) /\ fault' # "crash") =>
                  \A r \in ToDelete(dead) : \A c \in Cols :
                      InNoLength(column_indices[c], r)'
       /\ \A tid \in Tids : \A vals \in Rows(num_columns) :
              (biscuit_insert(tid, vals) /\ fault' # "crash") =>
                  \E slot \in {ChooseSlot(tid)} :
                      (slot.found_existing \/ slot.is_reusing_slot) =>
                          \A c \in Cols :
                              LengthsOnlyOf(column_indices[c], slot.rec_idx, vals[c])']_vars

(* ----------------------------- query planner --------------------------- *)

\* calculate_anchor_strength: 10 for every byte other than '_' and 3 for
\* every '_' before the first '%' (if is_prefix) and after the last '%'
\* (if is_suffix), at most 100
calculate_anchor_strength(pattern, is_prefix, is_suffix) ==
    LET len       == Len(pattern)
        leading   == {i \in 1..len : \A j \in 1..i : pattern[j] # Percent}
        trailing  == {i \in 1..len : \A j \in i..len : pattern[j] # Percent}
        Points(S) == 10 * Cardinality({i \in S : pattern[i] # Underscore})
                     + 3 * Cardinality({i \in S : pattern[i] = Underscore})
    IN  Min((IF is_prefix THEN Points(leading) ELSE 0)
            + (IF is_suffix THEN Points(trailing) ELSE 0), 100)

\* analyze_pattern: the counters of the byte loop and the classification.
\* A partition is counted at every byte that follows a run of '%', and
\* once more when the pattern does not end in '%'.
analyze_pattern(pattern) ==
    LET len         == Len(pattern)
        has_percent == \E i \in 1..len : pattern[i] = Percent
        underscores == Cardinality({i \in 1..len : pattern[i] = Underscore})
        is_prefix   == len > 0 /\ pattern[1] # Percent /\ has_percent
        is_suffix   == len > 0 /\ pattern[len] # Percent /\ has_percent
    IN  [concrete_chars   |-> Cardinality({i \in 1..len :
                                               pattern[i] \notin {Percent, Underscore}}),
         underscore_count |-> underscores,
         percent_count    |-> Cardinality({i \in 1..len :
                                               /\ pattern[i] = Percent
                                               /\ (i = 1 \/ pattern[i - 1] # Percent)}),
         partition_count  |-> Cardinality({i \in 2..len :
                                               /\ pattern[i] # Percent
                                               /\ pattern[i - 1] = Percent})
                              + (IF len > 0 /\ pattern[len] # Percent THEN 1 ELSE 0),
         has_percent      |-> has_percent,
         is_exact         |-> ~has_percent /\ underscores = 0,
         is_prefix        |-> is_prefix,
         is_suffix        |-> is_suffix,
         is_substring     |-> /\ len >= 2
                              /\ pattern[1] = Percent
                              /\ pattern[len] = Percent
                              /\ ~is_prefix
                              /\ ~is_suffix,
         anchor_strength  |-> calculate_anchor_strength(pattern, is_prefix, is_suffix)]

\* calculate_selectivity, the score in six-hundredths: 600 is 1.0, 1/(n + 1)
\* is 600 \div (n + 1), 0.05 is 30, 0.15 is 90, 1/200 is 3, 0.5 is 300 and
\* 0.01 is 6.  The divisions are exact for the patterns of up to five
\* bytes other than '%' and '_' that the model plans, and the doubles of
\* the code order those patterns and truncate as these numbers do.
calculate_selectivity(pred) ==
    LET base   == IF pred.concrete_chars > 0 THEN 600 \div (pred.concrete_chars + 1)
                  ELSE 600
        exact  == IF pred.is_exact THEN base \div 10 ELSE base
        score  == exact - pred.underscore_count * 30 + pred.partition_count * 90
                  - pred.anchor_strength * 3
                  + (IF pred.is_substring THEN 300 ELSE 0)
    IN  Min(Max(score, 6), 600)

\* assign_priority: the tier of the pattern plus (int)(selectivity_score * 10)
assign_priority(pred, selectivity_score) ==
    (IF pred.is_exact \/ (pred.underscore_count >= 3 /\ ~pred.has_percent) THEN 0
     ELSE IF ~pred.has_percent /\ pred.underscore_count > 0
     THEN 10 + (5 - pred.underscore_count)
     ELSE IF (pred.is_prefix \/ pred.is_suffix) /\ pred.anchor_strength >= 30
     THEN 20 + (100 - pred.anchor_strength) \div 10
     ELSE IF (pred.is_prefix \/ pred.is_suffix) /\ pred.anchor_strength > 0
     THEN 30 + (50 - pred.anchor_strength) \div 5
     ELSE IF pred.partition_count > 2 THEN 40 + pred.partition_count
     ELSE IF pred.is_substring THEN 50 + (10 - pred.concrete_chars)
     ELSE 35)
    + selectivity_score \div 60

\* the QueryPredicate that create_query_plan fills for a scan key
QueryPredicate(key) ==
    LET pred == analyze_pattern(key.pattern)
    IN  [scan_key          |-> key,
         pattern           |-> key.pattern,
         column_index      |-> key.col - 1,
         selectivity_score |-> calculate_selectivity(pred),
         priority          |-> assign_priority(pred, calculate_selectivity(pred))]

\* a comparison that puts the column first
compare_predicates_ColumnFirst(pred_a, pred_b) ==
    IF pred_a.column_index # pred_b.column_index
    THEN pred_a.column_index - pred_b.column_index
    ELSE pred_a.priority - pred_b.priority

\* compare_predicates: priority, then selectivity score, then column index
compare_predicates(pred_a, pred_b) ==
    IF pred_a.priority # pred_b.priority THEN pred_a.priority - pred_b.priority
    ELSE IF pred_a.selectivity_score < pred_b.selectivity_score THEN 0 - 1
    ELSE IF pred_a.selectivity_score > pred_b.selectivity_score THEN 1
    ELSE pred_a.column_index - pred_b.column_index

\* create_query_plan: the predicates of the keys, sorted by qsort with
\* compare_predicates; qsort leaves the order of predicates that compare
\* equal open, so every sorted arrangement is a plan
create_query_plan(keys) ==
    {plan \in {[i \in 1..Len(keys) |-> QueryPredicate(keys[perm[i]])] :
                   perm \in Permutations(1..Len(keys))} :
        \A i \in 1..Len(keys) : \A j \in (i + 1)..Len(keys) :
            compare_predicates(plan[i], plan[j]) <= 0}

(* ------------------------ scans with several keys ---------------------- *)

\* the key loop of biscuit_rescan for an index on one column, from key i
\* on with the intersection so far in result (NULL before the first key):
\* a key whose query copied a stray pointer ends the process, an empty
\* intersection ends the scan with no result, and after the last key the
\* tombstones are filtered out
RECURSIVE RescanKeys(_, _, _)
RescanKey(keys, i, result, key_result) ==
    IF Stray \in key_result THEN {Stray}
    ELSE IF result = NULL THEN RescanKeys(keys, i + 1, Some(key_result))
    ELSE IF BmAnd(Deref(result), key_result) = {} THEN {}
    ELSE RescanKeys(keys, i + 1, Some(BmAnd(Deref(result), key_result)))

RescanKeys(keys, i, result) ==
    IF i > Len(keys)
    THEN (IF result = NULL THEN {} ELSE FilterTombstones(Deref(result)))
    ELSE RescanKey(keys, i, result, KeyResult(keys[i]))

\* the loop over plan->predicates[i ..] of biscuit_rescan_multicolumn with
\* the candidates so far: intersect, and stop when nothing is left
RECURSIVE RescanPlanFrom(_, _, _)
RescanPredicate(plan, i, candidates, col_result) ==
    IF Stray \in col_result THEN {Stray}
    ELSE IF BmAnd(candidates, col_result) = {} THEN {}
    ELSE RescanPlanFrom(plan, i + 1, BmAnd(candidates, col_result))

RescanPlanFrom(plan, i, candidates) ==
    IF i > Len(plan) THEN candidates
    ELSE RescanPredicate(plan, i, candidates, KeyResult(plan[i].scan_key))

\* the first predicate of biscuit_rescan_multicolumn, its candidates
\* without the tombstones, then the remaining ones unless nothing is left
RescanFirst(plan, candidates) ==
    IF Stray \in candidates THEN {Stray}
    ELSE IF candidates = {} THEN {}
    ELSE RescanPlanFrom(plan, 2, candidates)

RescanPlan(plan) == RescanFirst(plan, FilterTombstones(KeyResult(plan[1].scan_key)))

\* biscuit_rescan of a regular index scan with the scan keys keys, all
\* non-NULL: the key loop for an index on one column, the plan for an
\* index on several
biscuit_rescan_keys(keys) ==
    /\ fault # "crash"
    /\ so_keys = <<>>
    /\ keys # <<>>
    /\ \E plan \in (IF num_columns > 1 THEN create_query_plan(keys) ELSE {<<>>}) :
       \E result \in {IF num_records = 0 THEN {}
                      ELSE IF num_columns > 1 THEN RescanPlan(plan)
                      ELSE RescanKeys(keys, 1, NULL)} :
           \/ /\ Stray \in result
              /\ fault' = "crash"
              /\ UNCHANGED <<so_keys, so_results>>
           \/ /\ Stray \notin result
              /\ so_keys' = keys
              /\ so_results' = biscuit_collect_tids_optimized(result)
              /\ fault' = fault
    /\ UNCHANGED <<num_columns, num_records, tids, data_cache, data_cache_lower,
                   tombstones, tombstone_count, free_list, max_len, column_indices, heap>>

(* --------------------------- the plan's order -------------------------- *)

\* the most scan keys of a planned scan
MaxPlanKeys == 3

\* the patterns that are planned: '', 'a', 'Aa', 'aaAa', 'a%', 'A%', 'Aa%',
\* 'aaA%', '___', '__', '%a%' and 'a%a'
PlannerPatterns ==
    {<<>>, <<97>>, <<65, 97>>, <<97, 97, 65, 97>>, <<97, 37>>, <<65, 37>>,
     <<65, 97, 37>>, <<97, 97, 65, 37>>, <<95, 95, 95>>, <<95, 95>>,
     <<37, 97, 37>>, <<97, 37, 97>>}

\* the scan keys that are planned, on either column
PlannerKeys ==
    {[col |-> c, strategy |-> BISCUIT_LIKE_STRATEGY, pattern |-> pattern] :
         c \in 1..2, pattern \in PlannerPatterns}

\* scans of an index on two columns with up to MaxPlanKeys keys, one scan
\* at a time
NextPlanner ==
    \/ /\ so_keys = <<>>
       /\ \E n \in 1..MaxPlanKeys : \E keys \in [1..n -> PlannerKeys] :
              biscuit_rescan_keys(keys)
       /\ UNCHANGED <<pre_insert, delete_count, compacted, QueryCancelPending, insert_results>>
    \/ biscuit_endscan /\ UNCHANGED <<pre_insert, delete_count, compacted, QueryCancelPending, insert_results>>

SpecPlanner == InitMulti /\ [][NextPlanner]_vars

\* the pattern has no '%' and no '_'
IsExactPattern(pattern) ==
    \A i \in 1..Len(pattern) : pattern[i] \notin {Percent, Underscore}

\* the pattern is one segment followed by a trailing '%'
IsPrefixPattern(pattern) ==
    /\ Len(pattern) >= 2
    /\ pattern[Len(pattern)] = Percent
    /\ \A i \in 1..(Len(pattern) - 1) : pattern[i] # Percent

\* ascending priority, then ascending selectivity score, then ascending
\* column index
PlanSorted(plan) ==
    \A i \in 1..Len(plan) : \A j \in (i + 1)..Len(plan) :
        \/ plan[i].priority < plan[j].priority
        \/ /\ plan[i].priority = plan[j].priority
           /\ \/ plan[i].selectivity_score < plan[j].selectivity_score
              \/ /\ plan[i].selectivity_score = plan[j].selectivity_score
                 /\ plan[i].column_index <= plan[j].column_index

\* every exact predicate is before every prefix predicate
ExactBeforePrefix(plan) ==
    \A i \in 1..Len(plan) : \A j \in 1..Len(plan) :
        (IsExactPattern(plan[i].pattern) /\ IsPrefixPattern(plan[j].pattern)) => i < j

\* C23: the plan of the keys of a scan of an index on several columns has
\* every exact predicate before every prefix predicate, whatever their
\* lengths and columns, and is sorted by ascending priority, then ascending
\* selectivity score, then ascending column index.
C23_PlanOrder ==
    (so_keys # <<>> /\ num_columns > 1) =>
        /\ create_query_plan(so_keys) # {}
        /\ \A plan \in create_query_plan(so_keys) :
               ExactBeforePrefix(plan) /\ PlanSorted(plan)

\* a scan whose keys are a prefix predicate of three characters on the
\* first column and then an exact predicate of one character on the second
C23_Witness ==
    /\ num_columns = 2
    /\ num_records > 0
    /\ so_keys = <<[col |-> 1, strategy |-> BISCUIT_LIKE_STRATEGY, pattern |-> <<97, 97, 65, 37>>],
                   [col |-> 2, strategy |-> BISCUIT_LIKE_STRATEGY, pattern |-> <<97>>]>>

(* ------------------------ several predicates --------------------------- *)

\* the most scan keys of a scan of SpecKeys
MaxScanKeys == 2

\* the scan keys of the scans with several keys: LIKE and NOT LIKE of '',
\* 'Aa' and 'a%' on an index on one column; of 'a%' on the first and of ''
\* and 'Aa' on the second column of an index on two
ScanKeys(ncols) ==
    IF ncols = 1
    THEN {[col |-> 1, strategy |-> strategy, pattern |-> pattern] :
              strategy \in {BISCUIT_LIKE_STRATEGY, BISCUIT_NOT_LIKE_STRATEGY},
              pattern \in {<<>>, <<65, 97>>, <<97, 37>>}}
    ELSE {[col |-> 1, strategy |-> strategy, pattern |-> <<97, 37>>] :
              strategy \in {BISCUIT_LIKE_STRATEGY, BISCUIT_NOT_LIKE_STRATEGY}} \cup
         {[col |-> 2, strategy |-> strategy, pattern |-> pattern] :
              strategy \in {BISCUIT_LIKE_STRATEGY, BISCUIT_NOT_LIKE_STRATEGY},
              pattern \in {<<>>, <<65, 97>>}}

\* an index on one column or on two
InitKeys == InitIndex(1) \/ InitIndex(2)

\* the mutations, the load and scans with up to MaxScanKeys keys
NextKeys ==
    \/ \E tid \in Tids : \E vals \in Rows(num_columns) :
           biscuit_insert(tid, vals) /\ UNCHANGED <<pre_insert, delete_count, compacted, QueryCancelPending, insert_results>>
    \/ \E dead \in (SUBSET Tids) \ {{}} :
           biscuit_bulkdelete(dead) /\ UNCHANGED <<pre_insert, delete_count, compacted, QueryCancelPending, insert_results>>
    \/ biscuit_load_index /\ UNCHANGED <<pre_insert, delete_count, compacted, QueryCancelPending, insert_results>>
    \/ /\ so_keys = <<>>
       /\ \E n \in 1..MaxScanKeys : \E keys \in [1..n -> ScanKeys(num_columns)] :
              biscuit_rescan_keys(keys)
       /\ UNCHANGED <<pre_insert, delete_count, compacted, QueryCancelPending, insert_results>>
    \/ biscuit_endscan /\ UNCHANGED <<pre_insert, delete_count, compacted, QueryCancelPending, insert_results>>

SpecKeys == InitKeys /\ [][NextKeys]_vars

\* the bitmap of the query function of a key, whatever NOT says
QueryOf(key) ==
    KeyResult([key EXCEPT !.strategy =
                   IF @ \in {BISCUIT_LIKE_STRATEGY, BISCUIT_NOT_LIKE_STRATEGY}
                   THEN BISCUIT_LIKE_STRATEGY ELSE BISCUIT_ILIKE_STRATEGY])

\* a predicate's own result: the bitmap of its query, for the NOT variants
\* the live records without it
OwnResult(key, query) ==
    IF key.strategy \in {BISCUIT_NOT_LIKE_STRATEGY, BISCUIT_NOT_ILIKE_STRATEGY}
    THEN LiveRecords \ query
    ELSE query

\* C22: a scan with several predicates returns the records of the
\* intersection of the predicates' own results (for the NOT variants the
\* live records without the result of the query) that are not tombstoned,
\* whatever order the predicates are executed in and whether or not the
\* scan stopped early on an empty candidate set.
C22_IntersectionOfPredicates ==
    (/\ so_keys # <<>>
     /\ \A k \in 1..Len(so_keys) : Stray \notin QueryOf(so_keys[k])) =>
        SeqSet(so_results) =
            {tids[r + 1] : r \in {r \in 0..(num_records - 1) :
                                     /\ r \notin tombstones
                                     /\ \A k \in 1..Len(so_keys) :
                                            r \in OwnResult(so_keys[k], QueryOf(so_keys[k]))}}

(* ------------------------------ interrupts ----------------------------- *)

\* chunk_size of biscuit_getbitmap (10000 in the source)
GETBITMAP_CHUNK == 1

\* the host raises the interrupt flag (a cancel request arrives)
RaiseInterrupt ==
    /\ fault # "crash"
    /\ ~QueryCancelPending
    /\ QueryCancelPending' = TRUE
    /\ UNCHANGED <<num_columns, num_records, tids, data_cache, data_cache_lower,
                   tombstones, tombstone_count, free_list, max_len, column_indices,
                   heap, fault, so_keys, so_results>>

\* biscuit_getbitmap: the results go into the bitmap of the host, all at
\* once when there are at most chunk_size of them, else chunk by chunk with
\* CHECK_FOR_INTERRUPTS() after every chunk, which with the flag raised
\* clears it and ends the query in an ERROR (the scan is closed)
biscuit_getbitmap ==
    /\ fault # "crash"
    /\ so_keys # <<>>
    /\ IF Len(so_results) > GETBITMAP_CHUNK /\ QueryCancelPending
       THEN /\ QueryCancelPending' = FALSE
            /\ so_keys' = <<>>
            /\ so_results' = <<>>
       ELSE UNCHANGED <<QueryCancelPending, so_keys, so_results>>
    /\ UNCHANGED <<num_columns, num_records, tids, data_cache, data_cache_lower,
                   tombstones, tombstone_count, free_list, max_len, column_indices,
                   heap, fault>>

\* inserts, scans with up to MaxScanKeys keys and their bitmaps, with a
\* cancel request at any moment
NextInterrupt ==
    \/ \E tid \in Tids : \E vals \in Rows(num_columns) :
           biscuit_insert(tid, vals)
           /\ UNCHANGED <<pre_insert, delete_count, compacted, QueryCancelPending, insert_results>>
    \/ RaiseInterrupt /\ UNCHANGED <<pre_insert, delete_count, compacted, insert_results>>
    \/ /\ so_keys = <<>>
       /\ \E n \in 1..MaxScanKeys : \E keys \in [1..n -> ScanKeys(num_columns)] :
              biscuit_rescan_keys(keys)
       /\ UNCHANGED <<pre_insert, delete_count, compacted, QueryCancelPending, insert_results>>
    \/ biscuit_getbitmap /\ UNCHANGED <<pre_insert, delete_count, compacted, insert_results>>
    \/ biscuit_endscan /\ UNCHANGED <<pre_insert, delete_count, compacted, QueryCancelPending, insert_results>>

SpecInterrupt == InitKeys /\ [][NextInterrupt]_vars

\* C24: a scan with several predicates that starts with the interrupt flag
\* raised is stopped between two predicates at the latest and ends in the
\* cancelled failure: it leaves no result.
C24_InterruptStopsQuery ==
    [][(QueryCancelPending /\ so_keys = <<>> /\ Len(so_keys') >= 2) =>
           so_results' = <<>>]_vars

(* --------------------------- tombstone counter ------------------------- *)

\* C25: after any sequence of inserts, updates and bulk deletes the
\* tombstone counter is the number of ids in the tombstone set, and it is
\* never negative.
C25_TombstoneCountIsCardinality ==
    fault # "crash" =>
        /\ tombstone_count = Cardinality(tombstones)
        /\ tombstone_count >= 0

(* ------------------------------- free list ----------------------------- *)

\* C26: after any sequence of inserts, updates and bulk deletes the free
\* list holds no id twice and holds the id of no live record.
C26_FreeListSound ==
    fault # "crash" =>
        /\ \A i \in 1..Len(free_list) : \A j \in 1..Len(free_list) :
               free_list[i] = free_list[j] => i = j
        /\ \A i \in 1..Len(free_list) : ~Live(free_list[i])

(* --------------------------- frame of an insert ------------------------ *)

\* the positional and length bitmaps of a column that hold r
PositionalAndLength(ci, r) ==
    [f \in {"pos_idx", "neg_idx", "pos_idx_lower", "neg_idx_lower",
            "length_bitmaps", "length_ge_bitmaps",
            "length_bitmaps_lower", "length_ge_bitmaps_lower"} |-> Membership(ci, r)[f]]

\* C27: an insert or update changes bitmap membership for the id of its
\* slot only: every other live record stays in exactly the same positional
\* and length bitmaps of every column, also when a length array grows or
\* the entries of a sorted (position, bitmap) array are shifted.
C27_InsertFrame ==
    [][\A tid \in Tids : \A vals \in Rows(num_columns) :
          (biscuit_insert(tid, vals) /\ fault' # "crash") =>
              \A r \in (0..(num_records - 1)) \ {ChooseSlot(tid).rec_idx} :
                  Live(r) =>
                      \A c \in Cols :
                          \E before \in {PositionalAndLength(column_indices[c], r)} :
                              PositionalAndLength(column_indices[c], r)' = before]_vars


(* ------------------------------- C28 ----------------------------------- *)

\* the rows of the table of SpecBuild: the rows of Rows, and the rows with
\* a NULL in one column or in every column
BuildRows(ncols) ==
    IF ncols = 1 THEN Rows(1) \cup {<<NullDatum>>}
    ELSE Rows(2) \cup {<<NullDatum, t>> : t \in Texts}
                 \cup {<<t, NullDatum>> : t \in Texts}
                 \cup {<<NullDatum, NullDatum>>}

\* biscuit_build / biscuit_build_multicolumn on a table that has rows
\* (REINDEX): the index is made again by one scan of the table
biscuit_build ==
    LET ix == BuiltIndex(heap, num_columns, FALSE)
    IN  /\ so_keys = <<>>
        /\ UNCHANGED <<so_keys, so_results>>
        /\ num_records' = ix.num_records
        /\ tids' = ix.tids
        /\ data_cache' = ix.data_cache
        /\ data_cache_lower' = ix.data_cache_lower
        /\ tombstones' = {}
        /\ tombstone_count' = 0
        /\ free_list' = <<>>
        /\ max_len' = ix.max_len
        /\ column_indices' = ix.column_indices
        /\ fault' = "none"
        /\ UNCHANGED <<num_columns, heap>>

\* an index on one or on two columns of a table without rows
InitBuild ==
    InitIndexOn({[t \in Tids |-> NULL]}, 1) \/ InitIndexOn({[t \in Tids |-> NULL]}, 2)

\* rows go into the table and the index one at a time, each at a TID that
\* has none; then the index is built again from the table, in bulk or on
\* open, and the results of every query before that are recorded
NextBuild ==
    \/ /\ insert_results = NULL
       /\ \E tid \in {t \in Tids : heap[t] = NULL} : \E vals \in BuildRows(num_columns) :
              biscuit_insert(tid, vals)
       /\ UNCHANGED <<pre_insert, delete_count, compacted, QueryCancelPending, insert_results>>
    \/ /\ insert_results = NULL
       /\ fault # "crash"
       /\ biscuit_build
       /\ insert_results' = Some(AllResults)
       /\ UNCHANGED <<pre_insert, delete_count, compacted, QueryCancelPending>>
    \/ /\ insert_results = NULL
       /\ fault # "crash"
       /\ biscuit_load_index
       /\ insert_results' = Some(AllResults)
       /\ UNCHANGED <<pre_insert, delete_count, compacted, QueryCancelPending>>

SpecBuild == InitBuild /\ [][NextBuild]_vars

\* C28: the index built in bulk or rebuilt from the table on open answers
\* every query with the TIDs that the index answered with into which the
\* same rows, rows with NULL columns among them, were inserted one at a
\* time.
C28_BuildEqualsInserts ==
    insert_results # NULL => AllResults = Deref(insert_results)


(* ------------------------------- C29 ----------------------------------- *)

\* the result count from which biscuit_collect_tids_optimized and
\* biscuit_collect_sorted_tids_parallel take the chunked path, scaled
\* from 10000
COLLECT_CHUNKED_THRESHOLD == 4

\* the result count from which the chunked path has max_workers (4)
\* chunks and not 2, scaled from 100000
COLLECT_MAX_WORKERS_THRESHOLD == 5

\* the largest num_records of SpecCollect
MaxCollect == 5

\* the TIDs of the rows of SpecCollect: two blocks, and in each two
\* offsets below OFFSET_BUCKETS and one that is not (a page of 32 kB
\* holds rows at offsets of 512 and more)
CollectTids == [block : {0, 1}, offset : {1, 2, OFFSET_BUCKETS}]

\* the ids of the bitmap in ascending order (the iterator of the bitmap,
\* biscuit_roaring_to_array)
biscuit_roaring_to_array(result) == Ascending(result)

\* the loop of biscuit_collect_tids_worker and of the single pass over
\* indices[from .. to): the TID of every id below num_records, in order
RECURSIVE biscuit_collect_tids_worker(_, _, _)
biscuit_collect_tids_worker(indices, from, to) ==
    IF from >= to THEN <<>>
    ELSE (IF indices[from + 1] < num_records THEN <<tids[indices[from + 1] + 1]>> ELSE <<>>)
             \o biscuit_collect_tids_worker(indices, from + 1, to)

\* the sort at the end of the collection
SortIfNeeded(arr, needs_sorting) ==
    IF needs_sorting /\ Len(arr) > 1 THEN biscuit_sort_tids_by_block(arr) ELSE arr

\* biscuit_collect_sorted_tids_single
biscuit_collect_sorted_tids_single(result, needs_sorting) ==
    IF result = {} THEN <<>>
    ELSE SortIfNeeded(biscuit_collect_tids_worker(biscuit_roaring_to_array(result), 0,
                                                  Cardinality(result)),
                      needs_sorting)

\* the outputs of the workers from worker i on, one after the other (what
\* the buffer holds after the compaction)
RECURSIVE WorkerOutputs(_, _, _, _)
WorkerOutputs(indices, i, num_workers, items_per_worker) ==
    IF i >= num_workers THEN <<>>
    ELSE biscuit_collect_tids_worker(indices, i * items_per_worker,
                                     Min((i + 1) * items_per_worker, Len(indices)))
             \o WorkerOutputs(indices, i + 1, num_workers, items_per_worker)

\* biscuit_collect_sorted_tids_parallel: the workers run one after the
\* other, each over its chunk of the ids
biscuit_collect_sorted_tids_parallel(result, needs_sorting) ==
    IF result = {} THEN <<>>
    ELSE IF Cardinality(result) < COLLECT_CHUNKED_THRESHOLD
    THEN biscuit_collect_sorted_tids_single(result, needs_sorting)
    ELSE SortIfNeeded(
             WorkerOutputs(biscuit_roaring_to_array(result), 0,
                           IF Cardinality(result) < COLLECT_MAX_WORKERS_THRESHOLD THEN 2 ELSE 4,
                           IF Cardinality(result) < COLLECT_MAX_WORKERS_THRESHOLD
                           THEN (Cardinality(result) + 1) \div 2
                           ELSE (Cardinality(result) + 3) \div 4),
             needs_sorting)

\* biscuit_collect_tids_optimized without a limit hint
\* (biscuit_estimate_limit_hint returns -1)
CollectTidsOptimized(result, needs_sorting) ==
    IF result = {} THEN <<>>
    ELSE IF Cardinality(result) >= COLLECT_CHUNKED_THRESHOLD
    THEN biscuit_collect_sorted_tids_parallel(result, needs_sorting)
    ELSE SortIfNeeded(biscuit_collect_tids_worker(biscuit_roaring_to_array(result), 0,
                                                  Cardinality(result)),
                      needs_sorting)

\* the arrays of the TIDs of the records: no TID twice
CollectInputs ==
    UNION {{a \in [1..n -> CollectTids] : \A i, j \in 1..n : a[i] = a[j] => i = j} :
               n \in 0..MaxCollect}

\* an index with the records of rows at the TIDs of CollectTids; no scan
\* has collected results
InitCollect ==
    /\ num_columns = 1
    /\ heap = [t \in Tids |-> NULL]
    /\ tids \in CollectInputs
    /\ num_records = Len(tids)
    /\ data_cache = BuiltIndex(heap, 1, FALSE).data_cache
    /\ data_cache_lower = <<>>
    /\ tombstones = {}
    /\ tombstone_count = 0
    /\ free_list = <<>>
    /\ max_len = 0
    /\ column_indices = BuiltIndex(heap, 1, FALSE).column_indices
    /\ fault = "none"
    /\ so_keys = <<>>
    /\ so_results = <<>>
    /\ pre_insert = NULL
    /\ delete_count = 0
    /\ compacted = {}
    /\ QueryCancelPending = FALSE
    /\ insert_results = NULL

\* the call of biscuit_collect_tids_optimized at the end of a scan, on the
\* result bitmap of the scan
CollectResults(result, needs_sorting) ==
    /\ so_results = <<>>
    /\ so_results' = CollectTidsOptimized(result, needs_sorting)
    /\ UNCHANGED <<num_columns, num_records, tids, data_cache, data_cache_lower,
                   tombstones, tombstone_count, free_list, max_len, column_indices,
                   heap, fault, so_keys, pre_insert, delete_count, compacted,
                   QueryCancelPending, insert_results>>

NextCollect ==
    \E result \in (SUBSET (0..(num_records - 1))) \ {{}} : \E needs_sorting \in BOOLEAN :
        CollectResults(result, needs_sorting)

SpecCollect == InitCollect /\ [][NextCollect]_vars

\* the array holds the TID of every record of the bitmap once and holds
\* nothing else
OneTidPerRecord(arr, result) ==
    /\ Len(arr) = Cardinality(result)
    /\ \A rec \in result : Cardinality({i \in 1..Len(arr) : arr[i] = tids[rec + 1]}) = 1

\* C29: the TID assembly returns exactly one TID for each record id of
\* the result bitmap, none lost and none twice, on the single-pass path
\* and on the chunked path, sorted afterwards or not.
C29_OneTidPerRecord ==
    [][\A result \in (SUBSET (0..(num_records - 1))) \ {{}} : \A needs_sorting \in BOOLEAN :
           CollectResults(result, needs_sorting) => OneTidPerRecord(so_results', result)]_vars


(* ------------------------------- C30 ----------------------------------- *)

\* the memcpy of old_max entries in the growth of the length arrays of
\* biscuit_insert(tid, vals) reads past the end of an old array
InsertCopiesPastEnd(tid, vals) ==
    \E c \in Cols :
        InsertColumn((IF ChooseSlot(tid).found_existing \/ ChooseSlot(tid).is_reusing_slot
                      THEN biscuit_remove_from_all_indices(column_indices,
                                                           ChooseSlot(tid).rec_idx)
                      ELSE column_indices)[c],
                     vals[c], ChooseSlot(tid).rec_idx, num_columns).oob

\* the loop of biscuit_bulkdelete over the length arrays of a column, with
\* its bound taken from max_length, reads past the end of an array
BulkDeleteReadsPastEnd(dead) ==
    /\ \E i \in 0..(num_records - 1) :
           data_cache[1][i + 1] # NULL /\ i \notin tombstones /\ tids[i + 1] \in dead
    /\ \E c \in Cols :
           \/ /\ column_indices[c].length_bitmaps # <<>>
              /\ (IF num_columns = 1 THEN column_indices[c].max_length
                  ELSE column_indices[c].max_length + 1)
                     > Len(column_indices[c].length_bitmaps)
           \/ /\ column_indices[c].length_bitmaps_lower # <<>>
              /\ (IF num_columns = 1 THEN column_indices[c].max_length_lower
                  ELSE column_indices[c].max_length_lower + 1)
                     > Len(column_indices[c].length_bitmaps_lower)

\* C30: every insert, update and bulk delete reads, writes and copies the
\* length-bitmap arrays at indices below their allocated size only; the
\* stored max length, used as a copy count or as a loop bound, is not
\* larger than the allocated size.
C30_LengthIndicesInBounds ==
    [][/\ \A tid \in Tids : \A vals \in Rows(num_columns) :
              biscuit_insert(tid, vals) => ~InsertCopiesPastEnd(tid, vals)
       /\ \A dead \in (SUBSET Tids) \ {{}} :
              biscuit_bulkdelete(dead) => ~BulkDeleteReadsPastEnd(dead)]_vars

====
